---- MODULE Spec2Model ----
(***************************************************************************)
(* Model of the dip-studio backend core: the node-tree engine              *)
(* (application/node_service.py over adapters/node_adapter.py), the        *)
(* function-document rows (adapters/document_adapter.py) and the document  *)
(* content store (adapters/document_content_adapter.py).                   *)
(*                                                                         *)
(* Conventions.  Node ids are uuid4 strings in the code; the model draws   *)
(* them from a counter, which keeps the one property the code relies on    *)
(* (an id is never handed out twice).  A materialised path                 *)
(* "/node_<a>/node_<b>" is the sequence <<a, b>>; all ids have the same    *)
(* length, so the string prefix tests (startswith, LIKE 'p/%') are the     *)
(* sequence prefix tests.  SQL NULL / Python None is None; the empty       *)
(* string, which the move request accepts as new_parent_id, is EmptyStr.   *)
(* The pool is created with autocommit=True and no handler opens a         *)
(* transaction, so every SQL statement is its own atomic step.             *)
(***************************************************************************)
EXTENDS Integers, Sequences, FiniteSets, TLC

VARIABLES
    nodes,       \* table project_node: id -> row
    documents,   \* table function_document: id -> row
    content,     \* table document_content: document_id -> stored JSON text
    nodeSeq,     \* number of node ids handed out so far (uuid4 freshness)
    docSeq,      \* AUTO_INCREMENT counter of function_document
    projects,    \* table project: id -> row
    dictionary,  \* table dictionary: id -> row
    resp,        \* error kind of the last response ("ok" on success)
    pc,          \* concurrent requests: position of each request
    req,         \* concurrent requests: arguments of each request
    loc          \* concurrent requests: local variables of each request

vars == <<nodes, documents, content, nodeSeq, docSeq, projects, dictionary, resp, pc, req, loc>>

---------------------------------------------------------------------------
(* Bounds and fixed input sets *)

MaxNodes == 4
MaxSort == 2
MaxSortOrder == 3

None == 0
EmptyStr == -1

Projects == {1, 2}
Names == {"n1"}

APPLICATION == "application"
PAGE == "page"
FUNCTION == "function"

NodeIds == 1..MaxNodes

\* Python truthiness of an Optional[str] id: None and "" are falsy.
Truthy(x) == x # None /\ x # EmptyStr

SetMax(S) == IF S = {} THEN 0 ELSE CHOOSE x \in S : \A y \in S : y <= x

IsPrefix(p, q) == Len(p) <= Len(q) /\ SubSeq(q, 1, Len(p)) = p

\* path LIKE '<p>/%': p followed by at least one more token.
LikeUnder(path, p) == Len(path) > Len(p) /\ SubSeq(path, 1, Len(p)) = p

---------------------------------------------------------------------------
(* domains/node.py *)

\* The entry None of the allowed-parent list ("no parent node").
NoParent == "None"

get_allowed_parent_types(node_type) ==
    CASE node_type = APPLICATION -> {NoParent}
      [] node_type = PAGE -> {APPLICATION}
      [] node_type = FUNCTION -> {PAGE}
      [] OTHER -> {}

\* A validate_parent that accepts every parent node, whatever its type.
validate_parent_any_node(node_type, parent_type) == parent_type # NoParent

\* validate_parent(parent_node): TRUE when no ValueError is raised.
\* parent_type is NoParent when parent_node is None.
validate_parent(node_type, parent_type) ==
    parent_type \in get_allowed_parent_types(node_type)

---------------------------------------------------------------------------
(* adapters/node_adapter.py: one operator per SQL statement *)

get_node_by_id_optional(t, id) == IF id \in DOMAIN t THEN t[id] ELSE None

NodeExists(t, id) == id \in DOMAIN t

\* SELECT ... WHERE project_id = p AND parent_id IS NULL AND node_type = 'application'
get_root_node(t, p) ==
    {i \in DOMAIN t : t[i].project_id = p /\ t[i].parent_id = None
                      /\ t[i].node_type = APPLICATION}

\* A has_children whose COUNT finds no row.
has_children_none(t, id) == FALSE

\* SELECT COUNT(*) FROM project_node WHERE parent_id = id
has_children(t, id) == \E i \in DOMAIN t : t[i].parent_id = id

\* A get_max_sort whose SELECT finds no row.
get_max_sort_no_rows(t, parent_id, project_id) == 0

\* SELECT COALESCE(MAX(sort), 0) ...
get_max_sort(t, parent_id, project_id) ==
    IF Truthy(parent_id)
    THEN SetMax({t[i].sort : i \in {j \in DOMAIN t : t[j].parent_id = parent_id}})
    ELSE SetMax({t[i].sort : i \in {j \in DOMAIN t :
                     t[j].project_id = project_id /\ t[j].parent_id = None}})

\* create_node: the path is computed from the parent row read just before
\* the INSERT (parent_path is that read's result).
NewPath(parent_id, parent_path, id) ==
    IF Truthy(parent_id) THEN Append(parent_path, id) ELSE <<id>>

InsertNode(t, id, row) == [i \in DOMAIN t \cup {id} |-> IF i = id THEN row ELSE t[i]]

\* An update_node_document_id whose UPDATE matches no row.
update_node_document_id_no_row(t, id, d) == t

\* UPDATE project_node SET document_id = d WHERE id = id
update_node_document_id(t, id, d) ==
    [i \in DOMAIN t |-> IF i = id THEN [t[i] EXCEPT !.document_id = d] ELSE t[i]]

\* UPDATE project_node SET name = .., description = .., sort = .. WHERE id = id
\* (sort is the value the service read when it loaded the node).
update_node(t, id, name, sort) ==
    [i \in DOMAIN t |-> IF i = id THEN [t[i] EXCEPT !.name = name, !.sort = sort]
                        ELSE t[i]]

\* A first UPDATE that shifts only the siblings with sort > new_sort.
ShiftSiblingsAbove(t, node_id, project_id, new_parent_id, new_sort) ==
    [i \in DOMAIN t |->
        IF /\ i # node_id
           /\ t[i].sort > new_sort
           /\ IF new_parent_id # None
              THEN t[i].parent_id = new_parent_id
              ELSE t[i].project_id = project_id /\ t[i].parent_id = None
        THEN [t[i] EXCEPT !.sort = @ + 1]
        ELSE t[i]]

\* move_node, first UPDATE: make room among the new siblings.
ShiftSiblings(t, node_id, project_id, new_parent_id, new_sort) ==
    [i \in DOMAIN t |->
        IF /\ i # node_id
           /\ t[i].sort >= new_sort
           /\ IF new_parent_id # None
              THEN t[i].parent_id = new_parent_id
              ELSE t[i].project_id = project_id /\ t[i].parent_id = None
        THEN [t[i] EXCEPT !.sort = @ + 1]
        ELSE t[i]]

\* move_node, second UPDATE: the moved row.
UpdateMoved(t, node_id, new_parent_id, new_path, new_sort) ==
    [i \in DOMAIN t |->
        IF i = node_id
        THEN [t[i] EXCEPT !.parent_id = new_parent_id, !.path = new_path,
                          !.sort = new_sort]
        ELSE t[i]]

\* An update_descendants_path whose SUBSTRING starts one token early.
update_descendants_path_early(t, node_id, old_path, new_path) ==
    [i \in DOMAIN t |->
        IF i # node_id /\ LikeUnder(t[i].path, old_path)
        THEN [t[i] EXCEPT !.path =
                 new_path \o SubSeq(t[i].path, Len(old_path), Len(t[i].path))]
        ELSE t[i]]

\* UPDATE project_node SET path = CONCAT(new, SUBSTRING(path, len(old)+1))
\*   WHERE path LIKE 'old/%' AND id != node_id
update_descendants_path(t, node_id, old_path, new_path) ==
    [i \in DOMAIN t |->
        IF i # node_id /\ LikeUnder(t[i].path, old_path)
        THEN [t[i] EXCEPT !.path =
                 new_path \o SubSeq(t[i].path, Len(old_path) + 1, Len(t[i].path))]
        ELSE t[i]]

\* DELETE FROM project_node WHERE id = id
delete_node_row(t, id) == [i \in DOMAIN t \ {id} |-> t[i]]

\* NodeAdapter.move_node run without interruption.
AdapterMoveNode(t, node_id, new_parent_id, new_sort) ==
    LET node == t[node_id]
        old_path == node.path
        new_path == IF Truthy(new_parent_id)
                    THEN Append(t[new_parent_id].path, node_id)
                    ELSE <<node_id>>
        t1 == ShiftSiblings(t, node_id, node.project_id, new_parent_id, new_sort)
        t2 == UpdateMoved(t1, node_id, new_parent_id, new_path, new_sort)
    IN  update_descendants_path(t2, node_id, old_path, new_path)

---------------------------------------------------------------------------
(* JSON values held by documents.  A value is a number or an object whose  *)
(* members are values; arrays are outside the modelled input set.          *)

Num(k) == [t |-> "num", n |-> k, m |-> <<>>]
Obj(f) == [t |-> "obj", n |-> 0, m |-> f]
NoMembers == [k \in {} |-> 0]
EmptyObj == Obj(NoMembers)
IsObj(v) == v.t = "obj"

\* json.dumps / json.loads: the stored text lists an object's members as
\* key/value pairs; loading rebuilds the mapping from the pairs.
RECURSIVE json_dumps(_)
json_dumps(v) ==
    IF v.t = "num" THEN <<"num", v.n, {}>>
    ELSE <<"obj", 0, {<<k, json_dumps(v.m[k])>> : k \in DOMAIN v.m}>>

RECURSIVE json_loads(_)
json_loads(s) ==
    IF s[1] = "num" THEN Num(s[2])
    ELSE Obj([k \in {p[1] : p \in s[3]} |->
                 json_loads((CHOOSE p \in s[3] : p[1] = k)[2])])

---------------------------------------------------------------------------
(* adapters/document_adapter.py and adapters/document_content_adapter.py *)

\* INSERT INTO function_document (function_node_id, ...); id = lastrowid
create_document(ds, id, function_node_id) ==
    [i \in DOMAIN ds \cup {id} |->
        IF i = id THEN [function_node_id |-> function_node_id] ELSE ds[i]]

\* SELECT ... FROM function_document WHERE function_node_id = n
get_document_by_node_id(ds, n) == {i \in DOMAIN ds : ds[i].function_node_id = n}

\* A delete_document_by_node_id whose DELETE matches no row.
delete_document_by_node_id_none(ds, n) == ds

\* DELETE FROM function_document WHERE function_node_id = n
delete_document_by_node_id(ds, n) ==
    [i \in {j \in DOMAIN ds : ds[j].function_node_id # n} |-> ds[i]]

\* get_content: {} when no row exists.
get_content(c, d) == IF d \in DOMAIN c THEN json_loads(c[d]) ELSE EmptyObj

\* A set_content whose INSERT leaves an existing row as it is.
set_content_insert_only(c, d, v) ==
    [i \in DOMAIN c \cup {d} |-> IF i \in DOMAIN c THEN c[i] ELSE json_dumps(v)]

\* set_content: INSERT ... ON DUPLICATE KEY UPDATE content = VALUES(content)
set_content(c, d, v) ==
    [i \in DOMAIN c \cup {d} |-> IF i = d THEN json_dumps(v) ELSE c[i]]

\* DELETE FROM document_content WHERE document_id = d
delete_content(c, d) == [i \in DOMAIN c \ {d} |-> c[i]]

---------------------------------------------------------------------------
(* jsonpatch.apply_patch as patch_content calls it (RFC 6902 over RFC 6901  *)
(* pointers).  A pointer is the sequence of its reference tokens; "" is     *)
(* <<>>.  An operation is a record [op, path, from, value].  The library    *)
(* raises JsonPatchConflict and JsonPatchTestFailed, which derive from      *)
(* JsonPatchException, and lets jsonpointer's JsonPointerException and a    *)
(* TypeError through, which do not.                                         *)

\* JsonPointer.walk along every token of path.
RECURSIVE Resolve(_, _)
Resolve(doc, path) ==
    IF path = <<>> THEN [ok |-> TRUE, v |-> doc]
    ELSE IF ~IsObj(doc) \/ Head(path) \notin DOMAIN doc.m
    THEN [ok |-> FALSE, v |-> doc]
    ELSE Resolve(doc.m[Head(path)], Tail(path))

Front(path) == SubSeq(path, 1, Len(path) - 1)
Last(path) == path[Len(path)]

\* JsonPointer.to_last: walk to the container of the last token; get_part
\* refuses a container that cannot be indexed.  ok = FALSE stands for the
\* JsonPointerException.
ToLast(doc, path) ==
    IF path = <<>> THEN [ok |-> TRUE, sub |-> doc]
    ELSE LET r == Resolve(doc, Front(path)) IN
         [ok |-> r.ok /\ IsObj(r.v), sub |-> r.v]

\* subobj[part] = value, seen from the root of the document.
RECURSIVE SetAt(_, _, _)
SetAt(doc, path, value) ==
    LET k == Head(path) IN
    IF Len(path) = 1
    THEN Obj([j \in DOMAIN doc.m \cup {k} |-> IF j = k THEN value ELSE doc.m[j]])
    ELSE Obj([doc.m EXCEPT ![k] = SetAt(@, Tail(path), value)])

\* del subobj[part], seen from the root of the document.
RECURSIVE RemoveAt(_, _)
RemoveAt(doc, path) ==
    LET k == Head(path) IN
    IF Len(path) = 1
    THEN Obj([j \in DOMAIN doc.m \ {k} |-> doc.m[j]])
    ELSE Obj([doc.m EXCEPT ![k] = RemoveAt(@, Tail(path))])

Raise(e, doc) == [err |-> e, doc |-> doc]
Done(doc) == [err |-> "none", doc |-> doc]

AddOperation(doc, path, value) ==
    LET tl == ToLast(doc, path) IN
    IF ~tl.ok THEN Raise("JsonPointerException", doc)
    ELSE IF path = <<>>
    THEN IF IsObj(doc) THEN Done(value) ELSE Raise("TypeError", doc)
    ELSE Done(SetAt(doc, path, value))

RemoveOperation(doc, path) ==
    LET tl == ToLast(doc, path) IN
    IF ~tl.ok THEN Raise("JsonPointerException", doc)
    ELSE IF path = <<>>
    THEN IF IsObj(doc) THEN Raise("JsonPatchConflict", doc) ELSE Raise("TypeError", doc)
    ELSE IF Last(path) \notin DOMAIN tl.sub.m THEN Raise("JsonPatchConflict", doc)
    ELSE Done(RemoveAt(doc, path))

ReplaceOperation(doc, path, value) ==
    LET tl == ToLast(doc, path) IN
    IF ~tl.ok THEN Raise("JsonPointerException", doc)
    ELSE IF path = <<>> THEN Done(value)
    ELSE IF Last(path) \notin DOMAIN tl.sub.m THEN Raise("JsonPatchConflict", doc)
    ELSE Done(SetAt(doc, path, value))

TestOperation(doc, path, value) ==
    LET r == Resolve(doc, path) IN
    IF ~r.ok THEN Raise("JsonPatchTestFailed", doc)
    ELSE IF r.v # value THEN Raise("JsonPatchTestFailed", doc)
    ELSE Done(doc)

\* from is never the root pointer in the inputs followed here.
MoveOperation(doc, from, path) ==
    LET tl == ToLast(doc, from) IN
    IF ~tl.ok THEN Raise("JsonPointerException", doc)
    ELSE IF Last(from) \notin DOMAIN tl.sub.m THEN Raise("JsonPatchConflict", doc)
    ELSE IF path = from THEN Done(doc)
    ELSE IF IsPrefix(from, path) THEN Raise("JsonPatchConflict", doc)
    ELSE LET value == tl.sub.m[Last(from)]
             removed == RemoveOperation(doc, from)
             added == AddOperation(removed.doc, path, value)
         IN  IF added.err = "none" THEN added ELSE Raise(added.err, doc)

CopyOperation(doc, from, path) ==
    LET tl == ToLast(doc, from) IN
    IF ~tl.ok THEN Raise("JsonPointerException", doc)
    ELSE IF Last(from) \notin DOMAIN tl.sub.m THEN Raise("JsonPatchConflict", doc)
    ELSE AddOperation(doc, path, tl.sub.m[Last(from)])

ApplyOp(doc, o) ==
    CASE o.op = "add" -> AddOperation(doc, o.path, o.value)
      [] o.op = "remove" -> RemoveOperation(doc, o.path)
      [] o.op = "replace" -> ReplaceOperation(doc, o.path, o.value)
      [] o.op = "test" -> TestOperation(doc, o.path, o.value)
      [] o.op = "move" -> MoveOperation(doc, o.from, o.path)
      [] o.op = "copy" -> CopyOperation(doc, o.from, o.path)

\* JsonPatch.apply on a deep copy: the operations in order, stopping at the
\* first exception; doc is the value when it stopped.
RECURSIVE apply_patch(_, _)
apply_patch(doc, patch) ==
    IF patch = <<>> THEN Done(doc)
    ELSE LET r == ApplyOp(doc, Head(patch)) IN
         IF r.err # "none" THEN r ELSE apply_patch(r.doc, Tail(patch))

---------------------------------------------------------------------------
(* application/node_service.py, one request at a time.  Each action is a   *)
(* whole request; a request the service rejects leaves every table as it   *)
(* was.                                                                    *)

NodeRow(project_id, parent_id, node_type, name, path, sort) ==
    [project_id |-> project_id, parent_id |-> parent_id, node_type |-> node_type,
     name |-> name, path |-> path, sort |-> sort, document_id |-> None]

OthersUnchanged == UNCHANGED <<projects, dictionary, resp, pc, req, loc>>

Rejected == UNCHANGED <<nodes, documents, content, nodeSeq, docSeq>>

\* get_project_by_id raises when the project row is missing.
ProjectExists(ps, project_id) == project_id \in DOMAIN ps

\* create_application_node: no root may exist for the project.
ApplicationAllowed(t, project_id) == get_root_node(t, project_id) = {}

CreateApplicationNode(project_id, name) ==
    /\ OthersUnchanged
    /\ IF ~ProjectExists(projects, project_id) \/ ~ApplicationAllowed(nodes, project_id)
       THEN Rejected
       ELSE LET id == nodeSeq + 1 IN
            /\ nodes' = InsertNode(nodes, id,
                   NodeRow(project_id, None, APPLICATION, name,
                           NewPath(None, <<>>, id), 0))
            /\ nodeSeq' = id
            /\ UNCHANGED <<documents, content, docSeq>>

\* The parent checks of create_page_node / create_function_node: the parent
\* row exists, has the type the service names (required_type), and
\* validate_parent accepts it.
ParentAllowed(t, node_type, required_type, parent_id) ==
    /\ NodeExists(t, parent_id)
    /\ t[parent_id].node_type = required_type
    /\ validate_parent(node_type, t[parent_id].node_type)

CreatePageNode(project_id, parent_id, name) ==
    /\ OthersUnchanged
    /\ IF ~ParentAllowed(nodes, PAGE, APPLICATION, parent_id)
       THEN Rejected
       ELSE LET id == nodeSeq + 1
                sort == get_max_sort(nodes, parent_id, project_id) + 1
            IN
            /\ nodes' = InsertNode(nodes, id,
                   NodeRow(project_id, parent_id, PAGE, name,
                           NewPath(parent_id, nodes[parent_id].path, id), sort))
            /\ nodeSeq' = id
            /\ UNCHANGED <<documents, content, docSeq>>

CreateFunctionNode(project_id, parent_id, name) ==
    /\ OthersUnchanged
    /\ IF ~ParentAllowed(nodes, FUNCTION, PAGE, parent_id)
       THEN Rejected
       ELSE LET id == nodeSeq + 1
                doc == docSeq + 1
                sort == get_max_sort(nodes, parent_id, project_id) + 1
                t1 == InsertNode(nodes, id,
                          NodeRow(project_id, parent_id, FUNCTION, name,
                                  NewPath(parent_id, nodes[parent_id].path, id), sort))
            IN
            /\ documents' = create_document(documents, doc, id)
            /\ content' = set_content(content, doc, EmptyObj)
            /\ nodes' = update_node_document_id(t1, id, doc)
            /\ nodeSeq' = id
            /\ docSeq' = doc

UpdateNode(node_id, name) ==
    /\ OthersUnchanged
    /\ IF ~NodeExists(nodes, node_id)
       THEN Rejected
       ELSE /\ nodes' = update_node(nodes, node_id, name, nodes[node_id].sort)
            /\ UNCHANGED <<documents, content, nodeSeq, docSeq>>

\* NodeService.move_node up to the call of the adapter: the error kind the
\* router answers with ("none" when the move goes ahead) and new_sort.
MoveCheck(t, node_id, new_parent_id, predecessor_node_id) ==
    IF ~NodeExists(t, node_id) THEN [err |-> "NotFound", new_sort |-> 0]
    ELSE IF predecessor_node_id # None /\ predecessor_node_id = node_id
    THEN [err |-> "ValidationError", new_sort |-> 0]
    ELSE IF Truthy(new_parent_id) /\ ~NodeExists(t, new_parent_id)
    THEN [err |-> "NotFound", new_sort |-> 0]
    ELSE IF Truthy(new_parent_id)
            /\ ~validate_parent(t[node_id].node_type, t[new_parent_id].node_type)
    THEN [err |-> "ValidationError", new_sort |-> 0]
    ELSE IF Truthy(new_parent_id) /\ IsPrefix(t[node_id].path, t[new_parent_id].path)
    THEN [err |-> "ValidationError", new_sort |-> 0]
    ELSE IF ~Truthy(new_parent_id) /\ t[node_id].node_type # APPLICATION
    THEN [err |-> "ValidationError", new_sort |-> 0]
    ELSE IF predecessor_node_id = None THEN [err |-> "none", new_sort |-> 0]
    ELSE IF ~NodeExists(t, predecessor_node_id)
    THEN [err |-> "NotFound", new_sort |-> 0]
    ELSE IF t[predecessor_node_id].parent_id # new_parent_id
    THEN [err |-> "ValidationError", new_sort |-> 0]
    ELSE IF t[predecessor_node_id].project_id # t[node_id].project_id
    THEN [err |-> "ValidationError", new_sort |-> 0]
    ELSE [err |-> "none", new_sort |-> t[predecessor_node_id].sort + 1]

MoveAccepted(t, node_id, new_parent_id, predecessor_node_id) ==
    MoveCheck(t, node_id, new_parent_id, predecessor_node_id).err = "none"

\* The table after a whole move_node request (unchanged when it is rejected).
MoveResult(t, node_id, new_parent_id, predecessor_node_id) ==
    LET chk == MoveCheck(t, node_id, new_parent_id, predecessor_node_id) IN
    IF chk.err = "none"
    THEN AdapterMoveNode(t, node_id, new_parent_id, chk.new_sort)
    ELSE t

MoveNode(node_id, new_parent_id, predecessor_node_id) ==
    /\ OthersUnchanged
    /\ nodes' = MoveResult(nodes, node_id, new_parent_id, predecessor_node_id)
    /\ UNCHANGED <<documents, content, nodeSeq, docSeq>>

\* The delete_node route's answer to a ValueError of the service: NotFound
\* when the message contains "不存在" (get_node_by_id's "节点不存在"), a
\* validation error otherwise (delete_node's "节点存在子节点，请先删除或移动子节点").
DeleteErrorKind(message_has_not_exist) ==
    IF message_has_not_exist THEN "NotFound" ELSE "ValidationError"

\* NodeService.delete_node as the route answers it: the response kind and
\* the tables afterwards.  The document rows of a function node go first.
delete_node(t, ds, c, node_id) ==
    IF ~NodeExists(t, node_id)
    THEN [resp |-> DeleteErrorKind(TRUE), nodes |-> t, documents |-> ds, content |-> c]
    ELSE IF has_children(t, node_id)
    THEN [resp |-> DeleteErrorKind(FALSE), nodes |-> t, documents |-> ds, content |-> c]
    ELSE LET docs == IF t[node_id].node_type = FUNCTION
                     THEN get_document_by_node_id(ds, node_id)
                     ELSE {}
         IN  [resp |-> "ok",
              nodes |-> delete_node_row(t, node_id),
              documents |-> IF docs = {} THEN ds
                            ELSE delete_document_by_node_id(ds, node_id),
              content |-> [i \in DOMAIN c \ docs |-> c[i]]]

DeleteNode(node_id) ==
    LET r == delete_node(nodes, documents, content, node_id) IN
    /\ OthersUnchanged
    /\ nodes' = r.nodes
    /\ documents' = r.documents
    /\ content' = r.content
    /\ UNCHANGED <<nodeSeq, docSeq>>

---------------------------------------------------------------------------
(* Spec: the node operations, one request at a time, on an empty database  *)
(* that holds the projects.  SpecOrder: the same requests within one       *)
(* project, with a wider range of sort values.                             *)

NoRows == [i \in {} |-> 0]

\* The project rows the create requests refer to (POST /projects ran before).
ExistingProjects == [p \in Projects |-> [name |-> p]]

Init ==
    /\ nodes = NoRows
    /\ documents = NoRows
    /\ content = NoRows
    /\ nodeSeq = 0
    /\ docSeq = 0
    /\ projects = ExistingProjects
    /\ dictionary = NoRows
    /\ resp = "none"
    /\ pc = NoRows
    /\ req = NoRows
    /\ loc = NoRows

ParentArgs == NodeIds \cup {None, EmptyStr}
PredecessorArgs == NodeIds \cup {None}

\* Ids are handed out up to MaxNodes; sort values, which grow without limit
\* under repeated moves, are followed up to max_sort.
WithinBounds(max_sort) ==
    /\ nodeSeq' <= MaxNodes
    /\ \A i \in DOMAIN nodes' : nodes'[i].sort <= max_sort

Next ==
    \/ \E p \in Projects, nm \in Names :
           CreateApplicationNode(p, nm) /\ WithinBounds(MaxSort)
    \/ \E p \in Projects, par \in NodeIds, nm \in Names :
           CreatePageNode(p, par, nm) /\ WithinBounds(MaxSort)
    \/ \E p \in Projects, par \in NodeIds, nm \in Names :
           CreateFunctionNode(p, par, nm) /\ WithinBounds(MaxSort)
    \/ \E n \in NodeIds, nm \in Names :
           UpdateNode(n, nm) /\ WithinBounds(MaxSort)
    \/ \E n \in NodeIds, par \in ParentArgs, pred \in PredecessorArgs :
           MoveNode(n, par, pred) /\ WithinBounds(MaxSort)
    \/ \E n \in NodeIds :
           DeleteNode(n) /\ WithinBounds(MaxSort)

Spec == Init /\ [][Next]_vars

OneProject == {1}

NextOrder ==
    \/ \E p \in OneProject, nm \in Names :
           CreateApplicationNode(p, nm) /\ WithinBounds(MaxSortOrder)
    \/ \E p \in OneProject, par \in NodeIds, nm \in Names :
           CreatePageNode(p, par, nm) /\ WithinBounds(MaxSortOrder)
    \/ \E p \in OneProject, par \in NodeIds, nm \in Names :
           CreateFunctionNode(p, par, nm) /\ WithinBounds(MaxSortOrder)
    \/ \E n \in NodeIds, nm \in Names :
           UpdateNode(n, nm) /\ WithinBounds(MaxSortOrder)
    \/ \E n \in NodeIds, par \in ParentArgs, pred \in PredecessorArgs :
           MoveNode(n, par, pred) /\ WithinBounds(MaxSortOrder)
    \/ \E n \in NodeIds :
           DeleteNode(n) /\ WithinBounds(MaxSortOrder)

SpecOrder == Init /\ [][NextOrder]_vars

---------------------------------------------------------------------------
(* application/document_service.py behind routers/document_router.py: the  *)
(* document content requests, one at a time.  resp is the error kind of    *)
(* the response, loc its JSON body (<<>> when it carries none).            *)

\* get_document_by_id: ValueError("文档不存在") when the row is missing.
DocumentExists(ds, d) == d \in DOMAIN ds

\* The router's answer to an exception of apply_patch: ValueError (raised
\* from JsonPatchException) is a ValidationError, anything else an
\* InternalError.
ErrorKind(err) ==
    IF err \in {"JsonPatchConflict", "JsonPatchTestFailed"}
    THEN "ValidationError"
    ELSE "InternalError"

\* A patch_content without the isinstance(new_content, dict) check.
patch_document_content_any_result(ds, c, d, patch) ==
    IF ~DocumentExists(ds, d) THEN [resp |-> "NotFound", content |-> c]
    ELSE LET r == apply_patch(get_content(c, d), patch) IN
         IF r.err # "none" THEN [resp |-> ErrorKind(r.err), content |-> c]
         ELSE [resp |-> "ok", content |-> set_content(c, d, r.doc)]

\* PUT /documents/{d}: the response kind and the content table afterwards.
patch_document_content(ds, c, d, patch) ==
    IF ~DocumentExists(ds, d) THEN [resp |-> "NotFound", content |-> c]
    ELSE LET r == apply_patch(get_content(c, d), patch) IN
         IF r.err # "none" THEN [resp |-> ErrorKind(r.err), content |-> c]
         ELSE IF ~IsObj(r.doc) THEN [resp |-> "ValidationError", content |-> c]
         ELSE [resp |-> "ok", content |-> set_content(c, d, r.doc)]

\* GET /documents/{d}: the response kind and body.
get_document_content(ds, c, d) ==
    IF ~DocumentExists(ds, d) THEN [resp |-> "NotFound", body |-> <<>>]
    ELSE [resp |-> "ok", body |-> <<get_content(c, d)>>]

PutDocument(d, patch) ==
    LET out == patch_document_content(documents, content, d, patch) IN
    /\ content' = out.content
    /\ resp' = out.resp
    /\ loc' = <<>>
    /\ UNCHANGED <<nodes, documents, nodeSeq, docSeq, projects, dictionary, pc, req>>

GetDocument(d) ==
    LET out == get_document_content(documents, content, d) IN
    /\ resp' = out.resp
    /\ loc' = out.body
    /\ UNCHANGED <<nodes, documents, content, nodeSeq, docSeq, projects, dictionary, pc, req>>

---------------------------------------------------------------------------
(* SpecDoc: get and patch requests on the document of one function node.   *)

MaxPatchLen == 2
MaxDepth == 3

Keys == {"a", "b"}
PatchPaths == {<<>>, <<"a">>, <<"b">>, <<"a", "b">>}
FromPaths == PatchPaths \ {<<>>}
PatchValues == {Num(1), EmptyObj}

PatchOps ==
    [op : {"add", "replace", "test"}, path : PatchPaths, from : {<<>>},
     value : PatchValues]
    \cup [op : {"remove"}, path : PatchPaths, from : {<<>>}, value : {EmptyObj}]
    \cup [op : {"move", "copy"}, path : PatchPaths, from : FromPaths,
          value : {EmptyObj}]

Patches == UNION {[1..n -> PatchOps] : n \in 0..MaxPatchLen}

DocIds == {1, 2}

RECURSIVE Depth(_)
Depth(v) ==
    IF ~IsObj(v) THEN 0
    ELSE 1 + SetMax({Depth(v.m[k]) : k \in DOMAIN v.m})

\* The tree application 1 <- page 2 <- function 3 with document 1, as the
\* three create requests leave it.
TreeWithDocument ==
    LET t1 == InsertNode(NoRows, 1,
                  NodeRow(1, None, APPLICATION, "n1", NewPath(None, <<>>, 1), 0))
        t2 == InsertNode(t1, 2,
                  NodeRow(1, 1, PAGE, "n1", NewPath(1, t1[1].path, 2),
                          get_max_sort(t1, 1, 1) + 1))
        t3 == InsertNode(t2, 3,
                  NodeRow(1, 2, FUNCTION, "n1", NewPath(2, t2[2].path, 3),
                          get_max_sort(t2, 2, 1) + 1))
    IN  update_node_document_id(t3, 3, 1)

InitDoc ==
    /\ nodes = TreeWithDocument
    /\ documents = create_document(NoRows, 1, 3)
    /\ content = set_content(NoRows, 1, EmptyObj)
    /\ nodeSeq = 3
    /\ docSeq = 1
    /\ projects = ExistingProjects
    /\ dictionary = NoRows
    /\ resp = "none"
    /\ pc = NoRows
    /\ req = NoRows
    /\ loc = NoRows

DocWithinBounds ==
    \A d \in DOMAIN content' : Depth(json_loads(content'[d])) <= MaxDepth

NextDoc ==
    \/ \E d \in DocIds, patch \in Patches : PutDocument(d, patch) /\ DocWithinBounds
    \/ \E d \in DocIds : GetDocument(d)

SpecDoc == InitDoc /\ [][NextDoc]_vars

---------------------------------------------------------------------------
(* SpecPatch: two PUT /documents/1 requests in flight at once.  Every       *)
(* await of a request is a point where the other request may run; each SQL *)
(* statement is atomic and autocommitted.  pc[c] is the position of        *)
(* request c, req[c] its patch, loc[c] its local variables.                *)

Clients == {1, 2}

ConcurrentOps ==
    [op : {"add", "replace"}, path : {<<"a">>, <<"b">>}, from : {<<>>},
     value : PatchValues]
    \cup [op : {"remove"}, path : {<<"a">>, <<"b">>}, from : {<<>>},
          value : {EmptyObj}]
    \cup [op : {"test"}, path : {<<"a">>}, from : {<<>>}, value : {Num(1)}]

ConcurrentPatches == UNION {[1..n -> ConcurrentOps] : n \in 0..MaxPatchLen}

NoLocals == [current |-> EmptyObj, resp |-> "none"]

InitPatch ==
    /\ nodes = TreeWithDocument
    /\ documents = create_document(NoRows, 1, 3)
    /\ content = set_content(NoRows, 1, EmptyObj)
    /\ nodeSeq = 3
    /\ docSeq = 1
    /\ projects = ExistingProjects
    /\ dictionary = NoRows
    /\ resp = "none"
    /\ pc = [c \in Clients |-> "check"]
    /\ req \in [Clients -> ConcurrentPatches]
    /\ loc = [c \in Clients |-> NoLocals]

\* patch_document_content: await get_document_by_id(document_id)
PatchCheck(c) ==
    /\ pc[c] = "check"
    /\ IF DocumentExists(documents, 1)
       THEN pc' = [pc EXCEPT ![c] = "read"] /\ loc' = loc
       ELSE /\ pc' = [pc EXCEPT ![c] = "done"]
            /\ loc' = [loc EXCEPT ![c].resp = "NotFound"]
    /\ UNCHANGED <<nodes, documents, content, nodeSeq, docSeq, projects, dictionary, resp, req>>

\* patch_content: current = await self.get_content(document_id)
PatchRead(c) ==
    /\ pc[c] = "read"
    /\ loc' = [loc EXCEPT ![c].current = get_content(content, 1)]
    /\ pc' = [pc EXCEPT ![c] = "write"]
    /\ UNCHANGED <<nodes, documents, content, nodeSeq, docSeq, projects, dictionary, resp, req>>

\* patch_content: apply_patch on the value read, then await set_content
PatchWrite(c) ==
    /\ pc[c] = "write"
    /\ LET r == apply_patch(loc[c].current, req[c]) IN
       IF r.err # "none"
       THEN /\ loc' = [loc EXCEPT ![c].resp = ErrorKind(r.err)]
            /\ content' = content
       ELSE IF ~IsObj(r.doc)
       THEN /\ loc' = [loc EXCEPT ![c].resp = "ValidationError"]
            /\ content' = content
       ELSE /\ loc' = [loc EXCEPT ![c].resp = "ok"]
            /\ content' = set_content(content, 1, r.doc)
    /\ pc' = [pc EXCEPT ![c] = "done"]
    /\ UNCHANGED <<nodes, documents, nodeSeq, docSeq, projects, dictionary, resp, req>>

NextPatch ==
    \/ \E c \in Clients : PatchCheck(c)
    \/ \E c \in Clients : PatchRead(c)
    \/ \E c \in Clients : PatchWrite(c)

SpecPatch == InitPatch /\ [][NextPatch]_vars

---------------------------------------------------------------------------
(* SpecMove: two move_node requests in flight at once on one tree.  The    *)
(* service reads the node, the new parent and the predecessor with one     *)
(* SELECT each, then the adapter reads the node and the parent again and   *)
(* issues its three UPDATEs; every statement is autocommitted, and the     *)
(* other request may run between any two of them.                          *)

\* application 1; pages 2, 3 under it; functions 4, 5 under page 2 and
\* function 6 under page 3, as six create requests leave them.
TreeForMoves ==
    LET Page(t, id) ==
            InsertNode(t, id, NodeRow(1, 1, PAGE, "n1", NewPath(1, t[1].path, id),
                                      get_max_sort(t, 1, 1) + 1))
        Function(t, id, par, doc) ==
            update_node_document_id(
                InsertNode(t, id, NodeRow(1, par, FUNCTION, "n1",
                                          NewPath(par, t[par].path, id),
                                          get_max_sort(t, par, 1) + 1)),
                id, doc)
        t1 == InsertNode(NoRows, 1,
                  NodeRow(1, None, APPLICATION, "n1", NewPath(None, <<>>, 1), 0))
    IN  Function(Function(Function(Page(Page(t1, 2), 3), 4, 2, 1), 5, 2, 2), 6, 3, 3)

DocumentsForMoves ==
    create_document(create_document(create_document(NoRows, 1, 4), 2, 5), 3, 6)

ContentForMoves ==
    set_content(set_content(set_content(NoRows, 1, EmptyObj), 2, EmptyObj),
                3, EmptyObj)

MoveArgs ==
    [node_id : {3, 4, 5, 6}, new_parent_id : {1, 2, 3},
     predecessor_node_id : {None, 2, 4, 5, 6}]

NoMoveLocals ==
    [node |-> NodeRow(0, None, APPLICATION, "", <<>>, 0), new_sort |-> 0,
     old_path |-> <<>>, new_path |-> <<>>, resp |-> "none"]

InitMove ==
    /\ nodes = TreeForMoves
    /\ documents = DocumentsForMoves
    /\ content = ContentForMoves
    /\ nodeSeq = 6
    /\ docSeq = 3
    /\ projects = ExistingProjects
    /\ dictionary = NoRows
    /\ resp = "none"
    /\ pc = [c \in Clients |-> "get_node"]
    /\ req \in [Clients -> MoveArgs]
    /\ loc = [c \in Clients |-> NoMoveLocals]

MoveFrame == UNCHANGED <<documents, content, nodeSeq, docSeq, projects, dictionary, resp, req>>

Fail(c, kind) ==
    /\ pc' = [pc EXCEPT ![c] = "done"]
    /\ loc' = [loc EXCEPT ![c].resp = kind]

\* service: node = await get_node_by_id(node_id); the predecessor may not be
\* the node itself.
MoveGetNode(c) ==
    /\ pc[c] = "get_node"
    /\ IF ~NodeExists(nodes, req[c].node_id) THEN Fail(c, "NotFound")
       ELSE IF req[c].predecessor_node_id # None
               /\ req[c].predecessor_node_id = req[c].node_id
       THEN Fail(c, "ValidationError")
       ELSE /\ loc' = [loc EXCEPT ![c].node = nodes[req[c].node_id]]
            /\ pc' = [pc EXCEPT ![c] = "get_parent"]
    /\ UNCHANGED nodes
    /\ MoveFrame

\* service: new_parent = await get_node_by_id(new_parent_id), validate_parent
\* and the descendant test; without a new parent only an application passes.
MoveGetParent(c) ==
    LET par == req[c].new_parent_id
        node == loc[c].node
    IN
    /\ pc[c] = "get_parent"
    /\ IF Truthy(par)
       THEN IF ~NodeExists(nodes, par) THEN Fail(c, "NotFound")
            ELSE IF ~validate_parent(node.node_type, nodes[par].node_type)
            THEN Fail(c, "ValidationError")
            ELSE IF IsPrefix(node.path, nodes[par].path)
            THEN Fail(c, "ValidationError")
            ELSE pc' = [pc EXCEPT ![c] = "get_predecessor"] /\ loc' = loc
       ELSE IF node.node_type # APPLICATION THEN Fail(c, "ValidationError")
            ELSE pc' = [pc EXCEPT ![c] = "get_predecessor"] /\ loc' = loc
    /\ UNCHANGED nodes
    /\ MoveFrame

\* service: new_sort from the predecessor row read now.
MoveGetPredecessor(c) ==
    LET pred == req[c].predecessor_node_id IN
    /\ pc[c] = "get_predecessor"
    /\ IF pred = None
       THEN /\ loc' = [loc EXCEPT ![c].new_sort = 0]
            /\ pc' = [pc EXCEPT ![c] = "adapter_get_node"]
       ELSE IF ~NodeExists(nodes, pred) THEN Fail(c, "NotFound")
       ELSE IF nodes[pred].parent_id # req[c].new_parent_id
       THEN Fail(c, "ValidationError")
       ELSE IF nodes[pred].project_id # loc[c].node.project_id
       THEN Fail(c, "ValidationError")
       ELSE /\ loc' = [loc EXCEPT ![c].new_sort = nodes[pred].sort + 1]
            /\ pc' = [pc EXCEPT ![c] = "adapter_get_node"]
    /\ UNCHANGED nodes
    /\ MoveFrame

\* adapter: node = await self.get_node_by_id(node_id); old_path = node.path
MoveAdapterGetNode(c) ==
    /\ pc[c] = "adapter_get_node"
    /\ IF ~NodeExists(nodes, req[c].node_id) THEN Fail(c, "NotFound")
       ELSE /\ loc' = [loc EXCEPT ![c].node = nodes[req[c].node_id],
                                  ![c].old_path = nodes[req[c].node_id].path]
            /\ pc' = [pc EXCEPT ![c] = "adapter_get_parent"]
    /\ UNCHANGED nodes
    /\ MoveFrame

\* adapter: new_path from the parent row read now.
MoveAdapterGetParent(c) ==
    LET par == req[c].new_parent_id IN
    /\ pc[c] = "adapter_get_parent"
    /\ IF Truthy(par) /\ ~NodeExists(nodes, par) THEN Fail(c, "NotFound")
       ELSE /\ loc' = [loc EXCEPT ![c].new_path =
                          IF Truthy(par)
                          THEN Append(nodes[par].path, req[c].node_id)
                          ELSE <<req[c].node_id>>]
            /\ pc' = [pc EXCEPT ![c] = "shift"]
    /\ UNCHANGED nodes
    /\ MoveFrame

\* adapter: first UPDATE
MoveShift(c) ==
    /\ pc[c] = "shift"
    /\ nodes' = ShiftSiblings(nodes, req[c].node_id, loc[c].node.project_id,
                              req[c].new_parent_id, loc[c].new_sort)
    /\ pc' = [pc EXCEPT ![c] = "update"]
    /\ loc' = loc
    /\ MoveFrame

\* adapter: second UPDATE
MoveUpdate(c) ==
    /\ pc[c] = "update"
    /\ nodes' = UpdateMoved(nodes, req[c].node_id, req[c].new_parent_id,
                            loc[c].new_path, loc[c].new_sort)
    /\ pc' = [pc EXCEPT ![c] = "descendants"]
    /\ loc' = loc
    /\ MoveFrame

\* adapter: await self.update_descendants_path(node_id, old_path, new_path)
MoveDescendants(c) ==
    /\ pc[c] = "descendants"
    /\ nodes' = update_descendants_path(nodes, req[c].node_id,
                                        loc[c].old_path, loc[c].new_path)
    /\ pc' = [pc EXCEPT ![c] = "done"]
    /\ loc' = [loc EXCEPT ![c].resp = "ok"]
    /\ MoveFrame

NextMove ==
    \/ \E c \in Clients : MoveGetNode(c)
    \/ \E c \in Clients : MoveGetParent(c)
    \/ \E c \in Clients : MoveGetPredecessor(c)
    \/ \E c \in Clients : MoveAdapterGetNode(c)
    \/ \E c \in Clients : MoveAdapterGetParent(c)
    \/ \E c \in Clients : MoveShift(c)
    \/ \E c \in Clients : MoveUpdate(c)
    \/ \E c \in Clients : MoveDescendants(c)

SpecMove == InitMove /\ [][NextMove]_vars

---------------------------------------------------------------------------
(* SpecCreate: two create_application_node requests whose awaits           *)
(* interleave.  Each request checks the project, reads the root with one   *)
(* autocommitted SELECT and inserts with another statement.                *)

MissingProject == 3

CreateArgs == [project_id : Projects \cup {MissingProject}, name : Names]

\* The table holding the root of project p only.
RootOnly(p) ==
    InsertNode(NoRows, 1, NodeRow(p, None, APPLICATION, "n1", NewPath(None, <<>>, 1), 0))

InitCreate ==
    /\ nodes \in {NoRows, RootOnly(2)}
    /\ nodeSeq = Cardinality(DOMAIN nodes)
    /\ documents = NoRows
    /\ content = NoRows
    /\ docSeq = 0
    /\ projects = ExistingProjects
    /\ dictionary = NoRows
    /\ resp = "none"
    /\ pc = [c \in Clients |-> "get_project"]
    /\ req \in [Clients -> CreateArgs]
    /\ loc = [c \in Clients |-> [resp |-> "none"]]

CreateFrame == UNCHANGED <<documents, content, docSeq, projects, dictionary, resp, req>>

\* await self._project_port.get_project_by_id(project_id); the route answers
\* every ValueError of this service call with a validation error.
CreateGetProject(c) ==
    /\ pc[c] = "get_project"
    /\ IF ~ProjectExists(projects, req[c].project_id) THEN Fail(c, "ValidationError")
       ELSE pc' = [pc EXCEPT ![c] = "get_root"] /\ loc' = loc
    /\ UNCHANGED <<nodes, nodeSeq>>
    /\ CreateFrame

\* existing = await self._node_port.get_root_node(project_id)
CreateGetRoot(c) ==
    /\ pc[c] = "get_root"
    /\ IF ~ApplicationAllowed(nodes, req[c].project_id) THEN Fail(c, "ValidationError")
       ELSE pc' = [pc EXCEPT ![c] = "insert"] /\ loc' = loc
    /\ UNCHANGED <<nodes, nodeSeq>>
    /\ CreateFrame

\* return await self._node_port.create_node(node)
CreateInsert(c) ==
    LET id == nodeSeq + 1 IN
    /\ pc[c] = "insert"
    /\ nodes' = InsertNode(nodes, id,
                    NodeRow(req[c].project_id, None, APPLICATION, req[c].name,
                            NewPath(None, <<>>, id), 0))
    /\ nodeSeq' = id
    /\ pc' = [pc EXCEPT ![c] = "done"]
    /\ loc' = [loc EXCEPT ![c].resp = "ok"]
    /\ CreateFrame

NextCreate ==
    \/ \E c \in Clients : CreateGetProject(c)
    \/ \E c \in Clients : CreateGetRoot(c)
    \/ \E c \in Clients : CreateInsert(c)

SpecCreate == InitCreate /\ [][NextCreate]_vars

---------------------------------------------------------------------------
(* SpecFunction: create_function_node statement by statement, for two      *)
(* requests.  A statement may raise (the database refuses it or the        *)
(* connection is lost); the exception leaves create_function_node, which   *)
(* has no except clause, and the route answers InternalError.              *)

FunctionArgs == [project_id : Projects, parent_id : {1, 2, 3}, name : Names]

InitFunction ==
    /\ nodes = TreeWithDocument
    /\ documents = create_document(NoRows, 1, 3)
    /\ content = set_content(NoRows, 1, EmptyObj)
    /\ nodeSeq = 3
    /\ docSeq = 1
    /\ projects = ExistingProjects
    /\ dictionary = NoRows
    /\ resp = "none"
    /\ pc = [c \in Clients |-> "check"]
    /\ req \in [Clients -> FunctionArgs]
    /\ loc = [c \in Clients |->
                [node_id |-> None, document_id |-> None, sort |-> 0, resp |-> "none"]]

\* parent = await get_node_by_id(parent_id); type check; get_max_sort;
\* validate_parent
FunctionCheck(c) ==
    /\ pc[c] = "check"
    /\ IF ~ParentAllowed(nodes, FUNCTION, PAGE, req[c].parent_id)
       THEN Fail(c, "ValidationError")
       ELSE /\ loc' = [loc EXCEPT ![c].sort =
                          get_max_sort(nodes, req[c].parent_id, req[c].project_id) + 1]
            /\ pc' = [pc EXCEPT ![c] = "create_node"]
    /\ UNCHANGED <<nodes, documents, content, nodeSeq, docSeq, projects, dictionary, resp, req>>

\* node = await self._node_port.create_node(node): the adapter reads the
\* parent row again for the path (raising when it is gone), then INSERTs.
FunctionCreateNode(c) ==
    LET id == nodeSeq + 1 IN
    /\ pc[c] = "create_node"
    /\ IF ~NodeExists(nodes, req[c].parent_id)
       THEN /\ Fail(c, "ValidationError")
            /\ UNCHANGED <<nodes, nodeSeq>>
       ELSE /\ nodes' = InsertNode(nodes, id,
                    NodeRow(req[c].project_id, req[c].parent_id, FUNCTION, req[c].name,
                            NewPath(req[c].parent_id, nodes[req[c].parent_id].path, id),
                            loc[c].sort))
            /\ nodeSeq' = id
            /\ loc' = [loc EXCEPT ![c].node_id = id]
            /\ pc' = [pc EXCEPT ![c] = "create_document"]
    /\ UNCHANGED <<documents, content, docSeq, projects, dictionary, resp, req>>

\* await self._document_port.create_document(document)
FunctionCreateDocument(c) ==
    LET doc == docSeq + 1 IN
    /\ pc[c] = "create_document"
    /\ documents' = create_document(documents, doc, loc[c].node_id)
    /\ docSeq' = doc
    /\ loc' = [loc EXCEPT ![c].document_id = doc]
    /\ pc' = [pc EXCEPT ![c] = "set_content"]
    /\ UNCHANGED <<nodes, content, nodeSeq, projects, dictionary, resp, req>>

\* await self._document_content_port.set_content(document.id, {})
FunctionSetContent(c) ==
    /\ pc[c] = "set_content"
    /\ content' = set_content(content, loc[c].document_id, EmptyObj)
    /\ pc' = [pc EXCEPT ![c] = "update_node_document_id"]
    /\ loc' = loc
    /\ UNCHANGED <<nodes, documents, nodeSeq, docSeq, projects, dictionary, resp, req>>

\* await self._node_port.update_node_document_id(node.id, document.id)
FunctionUpdateDocumentId(c) ==
    /\ pc[c] = "update_node_document_id"
    /\ nodes' = update_node_document_id(nodes, loc[c].node_id, loc[c].document_id)
    /\ pc' = [pc EXCEPT ![c] = "done"]
    /\ loc' = [loc EXCEPT ![c].resp = "ok"]
    /\ UNCHANGED <<documents, content, nodeSeq, docSeq, projects, dictionary, resp, req>>

\* One of the three statements after create_node raises: it writes nothing
\* and no later statement of the request runs.
FunctionStatementFails(c) ==
    /\ pc[c] \in {"create_document", "set_content", "update_node_document_id"}
    /\ Fail(c, "InternalError")
    /\ UNCHANGED <<nodes, documents, content, nodeSeq, docSeq, projects, dictionary, resp, req>>

NextFunction ==
    \/ \E c \in Clients : FunctionCheck(c)
    \/ \E c \in Clients : FunctionCreateNode(c)
    \/ \E c \in Clients : FunctionCreateDocument(c)
    \/ \E c \in Clients : FunctionSetContent(c)
    \/ \E c \in Clients : FunctionUpdateDocumentId(c)
    \/ \E c \in Clients : FunctionStatementFails(c)

SpecFunction == InitFunction /\ [][NextFunction]_vars

---------------------------------------------------------------------------
(* SpecMoveFail: the move requests of SpecMove, where one of the three     *)
(* UPDATE statements of NodeAdapter.move_node may raise.  The statement    *)
(* that raises writes nothing; the statements before it are committed.     *)

MoveStatementFails(c) ==
    /\ pc[c] \in {"shift", "update", "descendants"}
    /\ Fail(c, "InternalError")
    /\ UNCHANGED nodes
    /\ MoveFrame

NextMoveFail ==
    \/ NextMove
    \/ \E c \in Clients : MoveStatementFails(c)

SpecMoveFail == InitMove /\ [][NextMoveFail]_vars

---------------------------------------------------------------------------
(* SpecProject: ProjectService.delete_project statement by statement, one  *)
(* request at a time, on databases that hold two projects.  A statement    *)
(* may raise; nothing in delete_project catches it or undoes the           *)
(* statements before it.  The table document_block is not part of the      *)
(* model (no modelled operation writes it); its DELETE is a step that      *)
(* changes no modelled table.                                              *)

\* ORDER BY path: string order of "/node_<a>/node_<b>" paths, a prefix
\* before its extensions, tokens of the same length compared in turn.
PathBefore(p, q) ==
    /\ p # q
    /\ \/ IsPrefix(p, q)
       \/ \E k \in 1..Len(p) :
              /\ k <= Len(q)
              /\ SubSeq(p, 1, k - 1) = SubSeq(q, 1, k - 1)
              /\ p[k] < q[k]

RECURSIVE OrderByPath(_, _)
OrderByPath(t, ids) ==
    IF ids = {} THEN <<>>
    ELSE LET first == CHOOSE i \in ids :
                          \A j \in ids \ {i} : PathBefore(t[i].path, t[j].path)
         IN  <<first>> \o OrderByPath(t, ids \ {first})

\* SELECT ... FROM project_node WHERE project_id = p ORDER BY path, sort
get_nodes_by_project_id(t, p) ==
    OrderByPath(t, {i \in DOMAIN t : t[i].project_id = p})

\* A delete_nodes_by_project_id that removes only the root of the project.
delete_nodes_by_project_id_root_only(t, p) ==
    [i \in {j \in DOMAIN t : ~(t[j].project_id = p /\ t[j].parent_id = None)} |-> t[i]]

\* DELETE FROM project_node WHERE project_id = p
delete_nodes_by_project_id(t, p) ==
    [i \in {j \in DOMAIN t : t[j].project_id # p} |-> t[i]]

\* DELETE FROM function_document WHERE id = d
delete_document(ds, d) == [i \in DOMAIN ds \ {d} |-> ds[i]]

\* DELETE FROM dictionary WHERE project_id = p
delete_entries_by_project_id(es, p) ==
    [i \in {j \in DOMAIN es : es[j].project_id # p} |-> es[i]]

\* DELETE FROM project WHERE id = p
delete_project_row(ps, p) == [i \in DOMAIN ps \ {p} |-> ps[i]]

\* The document ids the loop of delete_project visits: function nodes of
\* the project whose document_id is not None, in the order of the SELECT.
DocumentsToDelete(t, p) ==
    LET ns == get_nodes_by_project_id(t, p)
        fs == SelectSeq(ns, LAMBDA i : t[i].node_type = FUNCTION
                                       /\ t[i].document_id # None)
    IN  [k \in 1..Len(fs) |-> t[fs[k]].document_id]

\* Two projects with one application each: application 1 <- page 2 <-
\* functions 3, 4 and application 5 <- page 6 <- function 7.  Function 4 is
\* created with project_id g (create_function_node takes the project from
\* the request, not from the parent).
TreeOfTwoProjects(g) ==
    LET Root(t, id, p) ==
            InsertNode(t, id, NodeRow(p, None, APPLICATION, "n1", NewPath(None, <<>>, id), 0))
        Page(t, id, p, par) ==
            InsertNode(t, id, NodeRow(p, par, PAGE, "n1", NewPath(par, t[par].path, id),
                                      get_max_sort(t, par, p) + 1))
        Function(t, id, p, par, doc) ==
            update_node_document_id(
                InsertNode(t, id, NodeRow(p, par, FUNCTION, "n1",
                                          NewPath(par, t[par].path, id),
                                          get_max_sort(t, par, p) + 1)),
                id, doc)
    IN  Function(Page(Root(Function(Function(Page(Root(NoRows, 1, 1), 2, 1, 1),
                                             3, 1, 2, 1), 4, g, 2, 2),
                           5, 2), 6, 2, 5), 7, 2, 6, 3)

DocumentsOfTwoProjects ==
    create_document(create_document(create_document(NoRows, 1, 3), 2, 4), 3, 7)

\* One dictionary entry (term "t1") for each project of ps.
DictionaryOf(ps) == [e \in ps |-> [project_id |-> e, term |-> "t1"]]

Database ==
    [nodes |-> nodes, documents |-> documents, content |-> content,
     dictionary |-> dictionary, projects |-> projects]

OneClient == {1}

InitProject ==
    /\ \E g \in Projects : nodes = TreeOfTwoProjects(g)
    /\ documents = DocumentsOfTwoProjects
    /\ content = ContentForMoves
    /\ nodeSeq = 7
    /\ docSeq = 3
    /\ projects = ExistingProjects
    /\ \E ps \in SUBSET Projects : dictionary = DictionaryOf(ps)
    /\ resp = "none"
    /\ pc = [c \in OneClient |-> "get_project"]
    /\ req \in [OneClient -> [project_id : Projects \cup {MissingProject}]]
    /\ loc = [c \in OneClient |-> [docs |-> <<>>, resp |-> "none", before |-> Database]]

ProjectFrame == UNCHANGED <<nodeSeq, docSeq, resp, req>>

\* await self._project_port.get_project_by_id(project_id)
ProjectGet(c) ==
    /\ pc[c] = "get_project"
    /\ IF ~ProjectExists(projects, req[c].project_id) THEN Fail(c, "NotFound")
       ELSE pc' = [pc EXCEPT ![c] = "get_nodes"] /\ loc' = loc
    /\ UNCHANGED <<nodes, documents, content, dictionary, projects>>
    /\ ProjectFrame

\* nodes = await self._node_port.get_nodes_by_project_id(project_id)
ProjectGetNodes(c) ==
    LET docs == DocumentsToDelete(nodes, req[c].project_id) IN
    /\ pc[c] = "get_nodes"
    /\ loc' = [loc EXCEPT ![c].docs = docs]
    /\ pc' = [pc EXCEPT ![c] = IF docs = <<>> THEN "delete_nodes" ELSE "delete_content"]
    /\ UNCHANGED <<nodes, documents, content, dictionary, projects>>
    /\ ProjectFrame

\* await self._document_content_port.delete_content(document_id)
ProjectDeleteContent(c) ==
    /\ pc[c] = "delete_content"
    /\ content' = delete_content(content, Head(loc[c].docs))
    /\ pc' = [pc EXCEPT ![c] = "delete_blocks"]
    /\ loc' = loc
    /\ UNCHANGED <<nodes, documents, dictionary, projects>>
    /\ ProjectFrame

\* await self._document_block_port.delete_blocks_by_document_id(document_id)
ProjectDeleteBlocks(c) ==
    /\ pc[c] = "delete_blocks"
    /\ pc' = [pc EXCEPT ![c] = "delete_document"]
    /\ loc' = loc
    /\ UNCHANGED <<nodes, documents, content, dictionary, projects>>
    /\ ProjectFrame

\* await self._document_port.delete_document(document_id): raises "文档不存在"
\* when no row was deleted; then the next node of the loop.
ProjectDeleteDocument(c) ==
    LET d == Head(loc[c].docs)
        rest == Tail(loc[c].docs)
    IN
    /\ pc[c] = "delete_document"
    /\ IF d \notin DOMAIN documents
       THEN Fail(c, "NotFound") /\ UNCHANGED documents
       ELSE /\ documents' = delete_document(documents, d)
            /\ loc' = [loc EXCEPT ![c].docs = rest]
            /\ pc' = [pc EXCEPT ![c] = IF rest = <<>> THEN "delete_nodes"
                                        ELSE "delete_content"]
    /\ UNCHANGED <<nodes, content, dictionary, projects>>
    /\ ProjectFrame

\* await self._node_port.delete_nodes_by_project_id(project_id)
ProjectDeleteNodes(c) ==
    /\ pc[c] = "delete_nodes"
    /\ nodes' = delete_nodes_by_project_id(nodes, req[c].project_id)
    /\ pc' = [pc EXCEPT ![c] = "delete_entries"]
    /\ loc' = loc
    /\ UNCHANGED <<documents, content, dictionary, projects>>
    /\ ProjectFrame

\* await self._dictionary_port.delete_entries_by_project_id(project_id)
ProjectDeleteEntries(c) ==
    /\ pc[c] = "delete_entries"
    /\ dictionary' = delete_entries_by_project_id(dictionary, req[c].project_id)
    /\ pc' = [pc EXCEPT ![c] = "delete_project"]
    /\ loc' = loc
    /\ UNCHANGED <<nodes, documents, content, projects>>
    /\ ProjectFrame

\* return await self._project_port.delete_project(project_id): raises
\* "项目不存在" when no row was deleted.
ProjectDeleteRow(c) ==
    /\ pc[c] = "delete_project"
    /\ IF ~ProjectExists(projects, req[c].project_id)
       THEN Fail(c, "NotFound") /\ UNCHANGED projects
       ELSE /\ projects' = delete_project_row(projects, req[c].project_id)
            /\ pc' = [pc EXCEPT ![c] = "done"]
            /\ loc' = [loc EXCEPT ![c].resp = "ok"]
    /\ UNCHANGED <<nodes, documents, content, dictionary>>
    /\ ProjectFrame

\* One of the DELETE statements raises: it deletes nothing and no later
\* statement of the request runs.
ProjectStatementFails(c) ==
    /\ pc[c] \in {"delete_content", "delete_blocks", "delete_document",
                  "delete_nodes", "delete_entries", "delete_project"}
    /\ Fail(c, "InternalError")
    /\ UNCHANGED <<nodes, documents, content, dictionary, projects>>
    /\ ProjectFrame

NextProject ==
    \/ \E c \in OneClient : ProjectGet(c)
    \/ \E c \in OneClient : ProjectGetNodes(c)
    \/ \E c \in OneClient : ProjectDeleteContent(c)
    \/ \E c \in OneClient : ProjectDeleteBlocks(c)
    \/ \E c \in OneClient : ProjectDeleteDocument(c)
    \/ \E c \in OneClient : ProjectDeleteNodes(c)
    \/ \E c \in OneClient : ProjectDeleteEntries(c)
    \/ \E c \in OneClient : ProjectDeleteRow(c)
    \/ \E c \in OneClient : ProjectStatementFails(c)

SpecProject == InitProject /\ [][NextProject]_vars

---------------------------------------------------------------------------
(* NodeService.get_application_detail_for_mcp (GET                         *)
(* /nodes/{node_id}/application-detail).  A value that may be null is a    *)
(* sequence: <<>> is null, <<v>> is the value v.                           *)

Null == <<>>
Some(v) == <<v>>

Reverse(s) == [k \in 1..Len(s) |-> s[Len(s) + 1 - k]]

\* tiptap_json_to_readable_text on the modelled values: str(doc) for a value
\* that is not a dict; a dict with no "type" and no "content" member (the
\* members of the model are named by Keys) falls to the default branch,
\* _join_blocks([]), the empty string.
tiptap_json_to_readable_text(doc) ==
    IF ~IsObj(doc) THEN ToString(doc.n) ELSE ""

\* Python truthiness of a document value: {} and 0 are false.
DocTruthy(doc) == IF IsObj(doc) THEN DOMAIN doc.m # {} ELSE doc.n # 0

\* doc_for_node: the content when n.document_id is truthy, else None.
doc_for_node(t, c, i) ==
    IF t[i].document_id # None THEN Some(get_content(c, t[i].document_id)) ELSE Null

\* item_with_doc: document_text = tiptap_json_to_readable_text(doc) if doc
\* else None
item_with_doc(i, doc) ==
    [node |-> i, document |-> doc,
     document_text |-> IF doc # Null /\ DocTruthy(doc[1])
                       THEN Some(tiptap_json_to_readable_text(doc[1]))
                       ELSE Null]

\* The while loop over parent_id: the direct parent first, until parent_id
\* is None or names no row.
RECURSIVE AncestorLoop(_, _)
AncestorLoop(t, current_id) ==
    IF current_id = None THEN <<>>
    ELSE IF ~NodeExists(t, current_id) THEN <<>>
    ELSE <<current_id>> \o AncestorLoop(t, t[current_id].parent_id)

\* A get_descendants that returns the direct children only.
get_descendants_children_only(t, node_id) ==
    IF ~NodeExists(t, node_id) THEN <<>>
    ELSE OrderByPath(t, {i \in DOMAIN t : t[i].parent_id = node_id})

\* SELECT ... WHERE path LIKE '<path>/%' AND id != node_id ORDER BY path, sort
get_descendants(t, node_id) ==
    IF ~NodeExists(t, node_id) THEN <<>>
    ELSE OrderByPath(t, {i \in DOMAIN t :
                            LikeUnder(t[i].path, t[node_id].path) /\ i # node_id})

\* The response for an existing node.
application_detail(t, c, node_id) ==
    LET ancestors == Reverse(AncestorLoop(t, t[node_id].parent_id))
        develop == <<node_id>> \o get_descendants(t, node_id)
    IN  [context |-> [k \in 1..Len(ancestors) |->
                         item_with_doc(ancestors[k], doc_for_node(t, c, ancestors[k]))],
         content_to_develop |-> [k \in 1..Len(develop) |->
                         item_with_doc(develop[k], doc_for_node(t, c, develop[k]))]]

---------------------------------------------------------------------------
(* routers/node_router.py: the answer of POST /nodes/application *)

\* The route turns every ValueError of the service (missing project, root
\* already present) into ValidationError, HTTP 400.
create_application_response(t, ps, project_id) ==
    IF ~ProjectExists(ps, project_id) \/ ~ApplicationAllowed(t, project_id)
    THEN "ValidationError"
    ELSE "Created"

---------------------------------------------------------------------------
(* Project names: routers/project_router.py, application/project_service.py,
   adapters/project_adapter.py *)

\* At most MaxProjects projects are created.
MaxProjects == 3

\* Project names.  "not_exist" stands for a name that contains the
\* characters 不存在, as in the message of a missing project.
ProjectNames == {"alpha", "beta", "not_exist"}

ContainsNotExist(name) == name = "not_exist"

\* UpdateProjectRequest.name is Optional[str]: the request without a name.
NoName == "None"

\* SELECT COUNT(*) FROM project WHERE name = %s [AND id != %s]
check_name_exists(ps, name, exclude_id) ==
    \E i \in DOMAIN ps : ps[i].name = name /\ (Truthy(exclude_id) => i # exclude_id)

\* create_project route: ValueError whose message contains "已存在" is
\* answered with ConflictError.  The message of the name check is
\* "项目名称已存在: <name>".
CreateProject(name) ==
    /\ req' = [op |-> "create", project_id |-> None, name |-> name]
    /\ loc' = [before |-> projects]
    /\ IF check_name_exists(projects, name, None)
       THEN /\ resp' = "Conflict"
            /\ projects' = projects
       ELSE /\ resp' = "Created"
            /\ projects' = InsertNode(projects, Cardinality(DOMAIN projects) + 1,
                                      [name |-> name])
    /\ UNCHANGED <<nodes, documents, content, nodeSeq, docSeq, dictionary, pc>>

\* update_project route: the message of a ValueError is searched for
\* "不存在" first (NotFoundError), then for "已存在" (ConflictError).  The
\* message of the name check carries the requested name.
UpdateProjectErrorKind(name) ==
    IF ContainsNotExist(name) THEN "NotFound" ELSE "Conflict"

\* ProjectService.update_project and its route; name = None leaves the name
\* as it is.
UpdateProject(project_id, name) ==
    /\ req' = [op |-> "update", project_id |-> project_id, name |-> name]
    /\ loc' = [before |-> projects]
    /\ IF ~ProjectExists(projects, project_id)
       THEN /\ resp' = "NotFound"
            /\ projects' = projects
       ELSE LET new_name == IF name # NoName THEN name ELSE projects[project_id].name IN
            IF check_name_exists(projects, new_name, project_id)
            THEN /\ resp' = UpdateProjectErrorKind(new_name)
                 /\ projects' = projects
            ELSE /\ resp' = "OK"
                 /\ projects' = [projects EXCEPT ![project_id].name = new_name]
    /\ UNCHANGED <<nodes, documents, content, nodeSeq, docSeq, dictionary, pc>>

InitNames ==
    /\ nodes = NoRows
    /\ documents = NoRows
    /\ content = NoRows
    /\ nodeSeq = 0
    /\ docSeq = 0
    /\ projects = NoRows
    /\ dictionary = NoRows
    /\ resp = "none"
    /\ pc = NoRows
    /\ req = [op |-> "none", project_id |-> None, name |-> NoName]
    /\ loc = [before |-> NoRows]

NextNames ==
    \/ \E name \in ProjectNames :
           CreateProject(name) /\ Cardinality(DOMAIN projects') <= MaxProjects
    \/ \E project_id \in 1..MaxProjects, name \in ProjectNames \cup {NoName} :
           UpdateProject(project_id, name)

SpecNames == InitNames /\ [][NextNames]_vars

---------------------------------------------------------------------------
(* application/node_service.py: get_node_tree *)

\* list.sort(key=lambda c: c.sort): a stable sort, here by insertion.
RECURSIVE SortBySort(_, _)
SortBySort(t, ids) ==
    IF ids = <<>> THEN <<>>
    ELSE LET rest == SortBySort(t, Tail(ids))
             x == Head(ids)
             before == SelectSeq(rest, LAMBDA i : t[i].sort < t[x].sort)
             after == SelectSeq(rest, LAMBDA i : t[i].sort >= t[x].sort)
         IN  before \o <<x>> \o after

\* get_node_tree: root is the last fetched row whose parent_id is None
\* (None when there is none, or when the project has no rows); children[i]
\* lists the fetched rows whose parent_id is i, for the fetched rows i.
get_node_tree(t, project_id) ==
    LET rows == get_nodes_by_project_id(t, project_id)
        node_map == {rows[k] : k \in 1..Len(rows)}
        roots == SelectSeq(rows, LAMBDA i : t[i].parent_id = None)
    IN  [root |-> IF roots = <<>> THEN None ELSE roots[Len(roots)],
         children |-> [i \in node_map |->
             SortBySort(t, SelectSeq(rows, LAMBDA j : t[j].parent_id = i))]]

\* The ids of the tree below and including node i, in the order of a
\* depth-first walk (d bounds the depth of the walk).
RECURSIVE Walk(_, _, _)
Walk(tree, i, d) ==
    LET RECURSIVE Each(_)
        Each(cs) == IF cs = <<>> \/ d = 0 THEN <<>>
                    ELSE Walk(tree, Head(cs), d - 1) \o Each(Tail(cs))
    IN  <<i>> \o Each(tree.children[i])

---------------------------------------------------------------------------
(* An update_node request beside whole move_node requests *)

UpdateArgs == [node_id : {2, 3, 4, 5, 6}, name : {"n2"}]

InitUpdate ==
    /\ nodes = TreeForMoves
    /\ documents = DocumentsForMoves
    /\ content = ContentForMoves
    /\ nodeSeq = 6
    /\ docSeq = 3
    /\ projects = ExistingProjects
    /\ dictionary = NoRows
    /\ resp = "none"
    /\ pc = "load"
    /\ req \in UpdateArgs
    /\ loc = [sort |-> 0]

\* service: node = await get_node_by_id(node_id); node.update(name=...)
UpdateLoad ==
    /\ pc = "load"
    /\ IF ~NodeExists(nodes, req.node_id)
       THEN /\ pc' = "done"
            /\ resp' = "NotFound"
            /\ loc' = loc
       ELSE /\ pc' = "write"
            /\ resp' = resp
            /\ loc' = [sort |-> nodes[req.node_id].sort]
    /\ UNCHANGED <<nodes, documents, content, nodeSeq, docSeq, projects, dictionary, req>>

\* adapter: UPDATE project_node SET name, description, sort, ... WHERE id
\* with the fields of the node object loaded before.
UpdateWrite ==
    /\ pc = "write"
    /\ pc' = "done"
    /\ IF ~NodeExists(nodes, req.node_id)
       THEN /\ resp' = "NotFound"
            /\ nodes' = nodes
       ELSE /\ resp' = "OK"
            /\ nodes' = update_node(nodes, req.node_id, req.name, loc.sort)
    /\ UNCHANGED <<documents, content, nodeSeq, docSeq, projects, dictionary, req, loc>>

NextUpdate ==
    \/ UpdateLoad
    \/ UpdateWrite
    \/ \E n \in {2, 3, 4, 5, 6}, par \in {1, 2, 3}, pred \in PredecessorArgs :
           /\ MoveNode(n, par, pred)
           /\ \A i \in DOMAIN nodes' : nodes'[i].sort <= MaxSort

SpecUpdate == InitUpdate /\ [][NextUpdate]_vars

---------------------------------------------------------------------------
(* SpecOrphan, SpecResurrect: a delete_node request statement by statement *)
(* beside a second request: a move_node or create_function_node            *)
(* (SpecOrphan) or a patch_document_content (SpecResurrect).               *)

\* TreeForMoves after delete_node(6): page 3 has no children.
AfterDelete == delete_node(TreeForMoves, DocumentsForMoves, ContentForMoves, 6)

DeleteLocals == [node |-> NodeRow(0, None, APPLICATION, "", <<>>, 0),
                 document |-> {}, resp |-> "none"]

DeleteFrame == UNCHANGED <<nodeSeq, docSeq, projects, dictionary, resp, req>>

\* node = await self._node_port.get_node_by_id(node_id)
DeleteGet(c) ==
    /\ pc[c] = "delete_get"
    /\ IF ~NodeExists(nodes, req[c].node_id)
       THEN Fail(c, DeleteErrorKind(TRUE))
       ELSE /\ loc' = [loc EXCEPT ![c].node = nodes[req[c].node_id]]
            /\ pc' = [pc EXCEPT ![c] = "has_children"]
    /\ UNCHANGED <<nodes, documents, content>>
    /\ DeleteFrame

\* if await self._node_port.has_children(node_id): raise ValueError
DeleteHasChildren(c) ==
    /\ pc[c] = "has_children"
    /\ IF has_children(nodes, req[c].node_id)
       THEN Fail(c, DeleteErrorKind(FALSE))
       ELSE /\ loc' = loc
            /\ pc' = [pc EXCEPT ![c] =
                         IF loc[c].node.node_type = FUNCTION
                         THEN "get_document" ELSE "delete_row"]
    /\ UNCHANGED <<nodes, documents, content>>
    /\ DeleteFrame

\* document = await self._document_port.get_document_by_node_id(node_id)
DeleteGetDocument(c) ==
    LET docs == get_document_by_node_id(documents, req[c].node_id) IN
    /\ pc[c] = "get_document"
    /\ loc' = [loc EXCEPT ![c].document = docs]
    /\ pc' = [pc EXCEPT ![c] = IF docs = {} THEN "delete_row" ELSE "delete_content"]
    /\ UNCHANGED <<nodes, documents, content>>
    /\ DeleteFrame

\* await self._document_content_port.delete_content(document.id); the
\* delete_blocks_by_document_id that follows touches no table kept here.
DeleteNodeContent(c) ==
    /\ pc[c] = "delete_content"
    /\ content' = [i \in DOMAIN content \ loc[c].document |-> content[i]]
    /\ pc' = [pc EXCEPT ![c] = "delete_document"]
    /\ loc' = loc
    /\ UNCHANGED <<nodes, documents>>
    /\ DeleteFrame

\* await self._document_port.delete_document_by_node_id(node_id)
DeleteNodeDocument(c) ==
    /\ pc[c] = "delete_document"
    /\ documents' = delete_document_by_node_id(documents, req[c].node_id)
    /\ pc' = [pc EXCEPT ![c] = "delete_row"]
    /\ loc' = loc
    /\ UNCHANGED <<nodes, content>>
    /\ DeleteFrame

\* return await self._node_port.delete_node(node_id): "节点不存在" when the
\* DELETE matched no row.
DeleteRow(c) ==
    /\ pc[c] = "delete_row"
    /\ IF ~NodeExists(nodes, req[c].node_id)
       THEN Fail(c, DeleteErrorKind(TRUE)) /\ nodes' = nodes
       ELSE /\ nodes' = delete_node_row(nodes, req[c].node_id)
            /\ pc' = [pc EXCEPT ![c] = "done"]
            /\ loc' = [loc EXCEPT ![c].resp = "ok"]
    /\ UNCHANGED <<documents, content>>
    /\ DeleteFrame

DeleteSteps ==
    \/ DeleteGet(1)
    \/ DeleteHasChildren(1)
    \/ DeleteGetDocument(1)
    \/ DeleteNodeContent(1)
    \/ DeleteNodeDocument(1)
    \/ DeleteRow(1)

\* Request 1 deletes page 2 or 3 or function 4; request 2 moves function 4
\* or 5 under page 2 or 3, or creates a function node under page 2 or 3.
InitOrphan ==
    /\ nodes = AfterDelete.nodes
    /\ documents = AfterDelete.documents
    /\ content = AfterDelete.content
    /\ nodeSeq = 6
    /\ docSeq = 3
    /\ projects = ExistingProjects
    /\ dictionary = NoRows
    /\ resp = "none"
    /\ \E d \in [node_id : {2, 3, 4}] :
       \/ \E mv \in [node_id : {4, 5}, new_parent_id : {2, 3},
                     predecessor_node_id : {None}] :
              /\ req = <<d, mv>>
              /\ pc = <<"delete_get", "get_node">>
              /\ loc = <<DeleteLocals, NoMoveLocals>>
       \/ \E cr \in [project_id : {1}, parent_id : {2, 3}, name : Names] :
              /\ req = <<d, cr>>
              /\ pc = <<"delete_get", "check">>
              /\ loc = <<DeleteLocals, [node_id |-> None, document_id |-> None,
                                        sort |-> 0, resp |-> "none"]>>

NextOrphan ==
    \/ DeleteSteps
    \/ MoveGetNode(2) \/ MoveGetParent(2) \/ MoveGetPredecessor(2)
    \/ MoveAdapterGetNode(2) \/ MoveAdapterGetParent(2)
    \/ MoveShift(2) \/ MoveUpdate(2) \/ MoveDescendants(2)
    \/ FunctionCheck(2) \/ FunctionCreateNode(2) \/ FunctionCreateDocument(2)
    \/ FunctionSetContent(2) \/ FunctionUpdateDocumentId(2)

SpecOrphan == InitOrphan /\ [][NextOrphan]_vars

\* Request 1 deletes function 4 (document 1) or function 5; request 2
\* patches the content of document 1.
InitResurrect ==
    /\ nodes = AfterDelete.nodes
    /\ documents = AfterDelete.documents
    /\ content = AfterDelete.content
    /\ nodeSeq = 6
    /\ docSeq = 3
    /\ projects = ExistingProjects
    /\ dictionary = NoRows
    /\ resp = "none"
    /\ \E d \in [node_id : {4, 5}] :
       \E patch \in UNION {[1..n -> ConcurrentOps] : n \in 0..1} :
           req = <<d, patch>>
    /\ pc = <<"delete_get", "check">>
    /\ loc = <<DeleteLocals, NoLocals>>

NextResurrect ==
    \/ DeleteSteps
    \/ PatchCheck(2)
    \/ PatchRead(2)
    \/ PatchWrite(2)

SpecResurrect == InitResurrect /\ [][NextResurrect]_vars

---------------------------------------------------------------------------
(* Properties of the node tree *)

\* The direct children of a parent id; "children" of None are the roots of
\* one project, as in the statements of move_node and get_max_sort.
Siblings(t, parent_id, project_id) ==
    IF parent_id = None
    THEN {i \in DOMAIN t : t[i].parent_id = None /\ t[i].project_id = project_id}
    ELSE {i \in DOMAIN t : t[i].parent_id = parent_id}

\* C1: path integrity.  Every node's path is its parent's path followed by
\* its own token, and is its own token alone when parent_id is null.
C1_PathIntegrity ==
    \A i \in DOMAIN nodes :
        IF nodes[i].parent_id = None
        THEN nodes[i].path = <<i>>
        ELSE /\ nodes[i].parent_id \in DOMAIN nodes
             /\ nodes[i].path = Append(nodes[nodes[i].parent_id].path, i)

\* C2: parent type grammar.  Whenever a node's parent_id names a node, the
\* pair is application<-page or page<-function; so no application has a
\* parent node and no function node has a child.
C2_ParentGrammar ==
    \A i \in DOMAIN nodes : \A j \in DOMAIN nodes :
        nodes[i].parent_id = j =>
            <<nodes[j].node_type, nodes[i].node_type>>
                \in {<<APPLICATION, PAGE>>, <<PAGE, FUNCTION>>}

\* A function node that a move has placed first under a page which has
\* another child (creation never hands out sort 0 below the root).
C2_Witness ==
    \E i \in DOMAIN nodes : \E k \in DOMAIN nodes :
        /\ nodes[i].node_type = FUNCTION
        /\ nodes[i].sort = 0
        /\ nodes[i].parent_id \in DOMAIN nodes
        /\ k # i
        /\ nodes[k].parent_id = nodes[i].parent_id

\* C3: root uniqueness.  Every project has at most one node with
\* parent_id = null, and that node is an application.
C3_RootUnique ==
    \A p \in Projects :
        LET roots == {i \in DOMAIN nodes :
                         nodes[i].project_id = p /\ nodes[i].parent_id = None}
        IN  /\ Cardinality(roots) <= 1
            /\ \A i \in roots : nodes[i].node_type = APPLICATION

\* C4: no cross-project grafts.  A node whose parent_id names a node has
\* that node's project_id.
C4_SameProjectAsParent ==
    \A i \in DOMAIN nodes :
        nodes[i].parent_id \in DOMAIN nodes =>
            nodes[nodes[i].parent_id].project_id = nodes[i].project_id

\* C5: document link.  Every function node has a non-null document_id that
\* names a function_document row whose function_node_id is the node; every
\* other node has document_id = null.
C5_DocumentLink ==
    \A i \in DOMAIN nodes :
        IF nodes[i].node_type = FUNCTION
        THEN /\ nodes[i].document_id # None
             /\ nodes[i].document_id \in DOMAIN documents
             /\ documents[nodes[i].document_id].function_node_id = i
        ELSE nodes[i].document_id = None

\* A function node with its document, after an earlier function node and
\* its document were deleted.
C5_Witness ==
    /\ docSeq >= 2
    /\ Cardinality(DOMAIN documents) = 1
    /\ \E i \in DOMAIN nodes : nodes[i].node_type = FUNCTION

\* Where move_node(n, p', predecessor) leaves n among the children of p'
\* (t0: the table before the move, t1: after it).
MovePlacement(t0, t1, n, new_parent_id, predecessor_node_id) ==
    LET sibs == Siblings(t1, new_parent_id, t1[n].project_id)
        others == sibs \ {n}
    IN  /\ n \in sibs
        /\ others \subseteq Siblings(t0, new_parent_id, t0[n].project_id)
        /\ IF predecessor_node_id = None
           THEN /\ t1[n].sort = 0
                /\ \A k \in others : t1[k].sort > 0
           ELSE /\ predecessor_node_id \in others
                /\ t1[n].sort = t1[predecessor_node_id].sort + 1
                /\ t1[predecessor_node_id].sort = t0[predecessor_node_id].sort
                /\ \A k \in others \ {predecessor_node_id} :
                       \/ t1[k].sort < t1[predecessor_node_id].sort
                       \/ t1[k].sort > t1[n].sort
        /\ \A a \in others : \A b \in others :
               (t0[a].sort < t0[b].sort) <=> (t1[a].sort < t1[b].sort)

\* C6: move placement.  In every reachable table, an accepted
\* move_node(n, p', predecessor) leaves n a child of p'; with no predecessor
\* it has sort 0 and is strictly first, otherwise it has the predecessor's
\* sort + 1 and follows it directly; the other children of p' keep their
\* relative order.
C6_MovePlacement ==
    \A n \in NodeIds : \A par \in ParentArgs : \A pred \in PredecessorArgs :
        MoveAccepted(nodes, n, par, pred)
            => MovePlacement(nodes, MoveResult(nodes, n, par, pred), n, par, pred)

\* Three children of one node whose order differs from the order of their
\* creation: the youngest stands between the two older ones, where only a
\* move behind a predecessor can have put it.
C6_Witness ==
    \E a \in DOMAIN nodes : \E b \in DOMAIN nodes : \E c \in DOMAIN nodes :
        /\ a < b /\ b < c
        /\ nodes[a].parent_id \in DOMAIN nodes
        /\ nodes[b].parent_id = nodes[a].parent_id
        /\ nodes[c].parent_id = nodes[a].parent_id
        /\ nodes[a].sort < nodes[c].sort
        /\ nodes[c].sort < nodes[b].sort

---------------------------------------------------------------------------
(* Properties of the document content requests *)

\* C7: patch is all-or-nothing on failure.  Whenever an operation of a patch
\* fails (a failed test, an unresolved path, including an add whose parent
\* path does not exist, or an operation the target's type does not allow),
\* the request fails with ValidationError and the stored content is what it
\* was before the call.
C7_PatchAllOrNothing ==
    \A d \in DOMAIN documents : \A patch \in Patches :
        apply_patch(get_content(content, d), patch).err # "none" =>
            LET out == patch_document_content(documents, content, d, patch) IN
            /\ out.resp = "ValidationError"
            /\ out.content = content

\* C8: patch/read consistency.  An empty patch list succeeds and leaves the
\* content a get returns as it was; a get after any successful patch returns
\* exactly the patch applied to the content stored before it.
C8_PatchReadConsistency ==
    \A d \in DOMAIN documents :
        /\ LET out == patch_document_content(documents, content, d, <<>>) IN
           /\ out.resp = "ok"
           /\ get_document_content(documents, out.content, d)
                  = get_document_content(documents, content, d)
        /\ \A patch \in Patches :
               LET out == patch_document_content(documents, content, d, patch) IN
               out.resp = "ok" =>
                   get_document_content(documents, out.content, d).body
                       = <<apply_patch(get_content(content, d), patch).doc>>

\* A get has answered with a content of nested objects, which successful
\* patches wrote.
C8_Witness ==
    /\ resp = "ok"
    /\ loc = <<get_content(content, 1)>>
    /\ Depth(get_content(content, 1)) = MaxDepth
    /\ DOMAIN get_content(content, 1).m = Keys

---------------------------------------------------------------------------
(* Properties of concurrent requests *)

\* The content table after the two patches of req ran one after the other on
\* the fresh document, first the patch of client c1, then that of c2.
SerialPatches(c1, c2) ==
    LET c0 == set_content(NoRows, 1, EmptyObj)
        after1 == patch_document_content(documents, c0, 1, req[c1]).content
    IN  patch_document_content(documents, after1, 1, req[c2]).content

\* C9: concurrent patches serialise.  When both patch requests on the
\* document have finished, the stored content is the one that applying the
\* two patches one after the other, in one of the two orders, leaves.
C9_PatchesSerialise ==
    (\A c \in Clients : pc[c] = "done") =>
        content \in {SerialPatches(1, 2), SerialPatches(2, 1)}

\* The node table after the two moves of req ran one after the other on the
\* tree TreeForMoves, first the move of client c1, then that of c2.
SerialMoves(c1, c2) ==
    LET after1 == MoveResult(TreeForMoves, req[c1].node_id, req[c1].new_parent_id,
                             req[c1].predecessor_node_id)
    IN  MoveResult(after1, req[c2].node_id, req[c2].new_parent_id,
                   req[c2].predecessor_node_id)

\* C10: concurrent moves serialise.  When both move_node requests have
\* finished, the sorts, parent_ids and paths of the table are those that
\* running the two moves one after the other, in one of the two orders,
\* produces.
C10_MovesSerialise ==
    (\A c \in Clients : pc[c] = "done") =>
        nodes \in {SerialMoves(1, 2), SerialMoves(2, 1)}

---------------------------------------------------------------------------
(* Concurrent creation of the application node *)

\* C11: when two create_application_node requests run concurrently, no
\* project ends up with two nodes having parent_id = null (at most one of
\* two requests for the same project creates a node).
C11_RootUniqueConcurrent ==
    \A p \in Projects :
        Cardinality({i \in DOMAIN nodes :
                        nodes[i].project_id = p /\ nodes[i].parent_id = None}) <= 1

---------------------------------------------------------------------------
(* Failures between the statements of one request *)

\* C12: create_function_node is all-or-nothing: when creating the document
\* row, initialising its content or writing document_id back has failed, no
\* function node row, document row or content row of the attempt remains.
C12_CreateFunctionAllOrNothing ==
    \A c \in Clients :
        (pc[c] = "done" /\ loc[c].resp = "InternalError") =>
            /\ loc[c].node_id \notin DOMAIN nodes
            /\ loc[c].document_id \notin DOMAIN documents
            /\ loc[c].document_id \notin DOMAIN content

\* C13: move is all-or-nothing: when the store-level move of the only
\* request that has run has failed after the shift of the new siblings or
\* after the update of the moved row, the sort, parent_id and path of every
\* node equal their values before the move.
C13_MoveAllOrNothing ==
    \A c \in Clients :
        (/\ pc[c] = "done"
         /\ loc[c].resp = "InternalError"
         /\ \A o \in Clients \ {c} : pc[o] = "get_node") =>
            /\ DOMAIN nodes = DOMAIN TreeForMoves
            /\ \A i \in DOMAIN nodes :
                   /\ nodes[i].sort = TreeForMoves[i].sort
                   /\ nodes[i].parent_id = TreeForMoves[i].parent_id
                   /\ nodes[i].path = TreeForMoves[i].path

---------------------------------------------------------------------------
(* Deleting a project *)

Restrict(f, S) == [i \in DOMAIN f \cap S |-> f[i]]

\* The documents that belonged to project p when the request arrived.
DocumentsOf(before, p) ==
    {d \in DOMAIN before.documents :
        /\ before.documents[d].function_node_id \in DOMAIN before.nodes
        /\ before.nodes[before.documents[d].function_node_id].project_id = p}

\* The rows of database db that belong to project p.
ProjectRows(db, before, p) ==
    [nodes |-> Restrict(db.nodes, {i \in DOMAIN db.nodes : db.nodes[i].project_id = p}),
     documents |-> Restrict(db.documents, DocumentsOf(before, p)),
     content |-> Restrict(db.content, DocumentsOf(before, p)),
     dictionary |-> Restrict(db.dictionary,
                        {e \in DOMAIN db.dictionary : db.dictionary[e].project_id = p}),
     projects |-> Restrict(db.projects, {p})]

\* C14: delete_project is all-or-nothing: when a step of the cascade has
\* failed, the project and all of its nodes, documents, contents and
\* dictionary entries are exactly as they were before the call.
C14_DeleteProjectAllOrNothing ==
    \A c \in DOMAIN pc :
        (pc[c] = "done" /\ loc[c].resp = "InternalError") =>
            ProjectRows(Database, loc[c].before, req[c].project_id)
                = ProjectRows(loc[c].before, loc[c].before, req[c].project_id)

\* C15: after delete_project(p) succeeds with no other request running, no
\* node, document, content or dictionary entry that belonged to p remains
\* and the project row is gone, while the rows of every other project are
\* unchanged.
C15_DeleteProjectCascades ==
    \A c \in DOMAIN pc :
        (pc[c] = "done" /\ loc[c].resp = "ok") =>
            LET p == req[c].project_id
                before == loc[c].before
                left == ProjectRows(Database, before, p)
            IN
            /\ left.nodes = NoRows
            /\ left.documents = NoRows
            /\ left.content = NoRows
            /\ left.dictionary = NoRows
            /\ left.projects = NoRows
            /\ \A q \in DOMAIN before.projects \ {p} :
                   ProjectRows(Database, before, q) = ProjectRows(before, before, q)

\* A project that owned nodes, two documents with content and a dictionary
\* entry has been deleted while the other project owned rows of each kind.
C15_Witness ==
    \E c \in DOMAIN pc :
        /\ pc[c] = "done" /\ loc[c].resp = "ok"
        /\ LET before == loc[c].before
               own == ProjectRows(before, before, req[c].project_id)
           IN
           /\ Cardinality(DOMAIN own.nodes) >= 3
           /\ Cardinality(DOMAIN own.content) = 2
           /\ own.dictionary # NoRows
           /\ \E q \in DOMAIN before.projects \ {req[c].project_id} :
                  LET other == ProjectRows(before, before, q) IN
                  /\ other.nodes # NoRows
                  /\ other.content # NoRows
                  /\ other.dictionary # NoRows

---------------------------------------------------------------------------
(* Deleting a node *)

C17_DeleteFunctionDestroysDocument ==
    \A n \in DOMAIN nodes :
        LET r == delete_node(nodes, documents, content, n)
            d == nodes[n].document_id
        IN
        (nodes[n].node_type = FUNCTION /\ r.resp = "ok") =>
            /\ n \notin DOMAIN r.nodes
            /\ d \notin DOMAIN r.documents
            /\ d \notin DOMAIN r.content
            /\ get_document_content(r.documents, r.content, d).resp = "NotFound"
            /\ \A patch \in {<<>>} \cup {<<op>> : op \in ConcurrentOps} :
                   LET out == patch_document_content(r.documents, r.content, d, patch) IN
                   out.resp = "NotFound" /\ out.content = r.content

\* A function node was deleted: a document id that was handed out has no
\* row left and GET answers NotFound, while another document is still there.
C17_Witness ==
    /\ \E d \in 1..docSeq :
           /\ d \notin DOMAIN documents
           /\ d \notin DOMAIN content
           /\ get_document_content(documents, content, d).resp = "NotFound"
    /\ \E n \in DOMAIN nodes :
           /\ nodes[n].node_type = FUNCTION
           /\ nodes[n].document_id \in DOMAIN documents
           /\ delete_node(nodes, documents, content, n).resp = "ok"

---------------------------------------------------------------------------
(* The shape of the stored content *)

\* C18: the stored content of every document is always a JSON object; it
\* is {} right after the function node is created and when no row exists;
\* a patch whose result is not a JSON object is rejected and leaves the
\* stored content unchanged.
C18_ContentIsObject ==
    /\ \A d \in DOMAIN content : json_loads(content[d]).t = "obj"
    /\ \A d \in DocIds \ DOMAIN content : get_content(content, d) = EmptyObj
    /\ resp = "none" =>
           \A n \in DOMAIN nodes :
               nodes[n].document_id # None =>
                   /\ nodes[n].document_id \in DOMAIN content
                   /\ get_content(content, nodes[n].document_id) = EmptyObj
    /\ \A d \in DOMAIN documents : \A patch \in Patches :
           LET r == apply_patch(get_content(content, d), patch) IN
           (r.err = "none" /\ r.doc.t # "obj") =>
               LET out == patch_document_content(documents, content, d, patch) IN
               /\ out.resp = "ValidationError"
               /\ out.content = content

\* A patch was answered with a validation error while the document holds
\* nested objects, and replacing its root by a number is among the patches
\* whose result is not an object.
C18_Witness ==
    /\ resp = "ValidationError"
    /\ Depth(get_content(content, 1)) = MaxDepth
    /\ \E patch \in Patches :
           LET r == apply_patch(get_content(content, 1), patch) IN
           /\ Len(patch) = 1 /\ patch[1].op = "replace" /\ patch[1].path = <<>>
           /\ r.err = "none" /\ r.doc = Num(1)
           /\ patch_document_content(documents, content, 1, patch).resp = "ValidationError"

---------------------------------------------------------------------------
(* The application detail *)

\* The nodes reached from i by following parent_id.
RECURSIVE AncestorsOf(_, _)
AncestorsOf(t, i) ==
    IF t[i].parent_id \notin DOMAIN t THEN {}
    ELSE {t[i].parent_id} \cup AncestorsOf(t, t[i].parent_id)

DescendantsOf(t, n) == {i \in DOMAIN t : n \in AncestorsOf(t, i)}

\* C19: for every existing node n of a tree built by the node operations,
\* application_detail(n).context is exactly the chain of n's ancestors from
\* the root down to n's parent, in that order; content_to_develop starts
\* with n itself; the rest of content_to_develop is exactly the set of n's
\* descendants, each once.
C19_ContextSlice ==
    \A n \in DOMAIN nodes :
        LET r == application_detail(nodes, content, n)
            ctx == [k \in 1..Len(r.context) |-> r.context[k].node]
            dev == [k \in 1..Len(r.content_to_develop) |-> r.content_to_develop[k].node]
        IN
        /\ Len(ctx) = Cardinality(AncestorsOf(nodes, n))
        /\ Len(ctx) > 0 =>
               /\ ctx[Len(ctx)] = nodes[n].parent_id
               /\ \A k \in 1..(Len(ctx) - 1) : ctx[k] = nodes[ctx[k + 1]].parent_id
               /\ nodes[ctx[1]].parent_id \notin DOMAIN nodes
        /\ dev[1] = n
        /\ {dev[k] : k \in 2..Len(dev)} = DescendantsOf(nodes, n)
        /\ Len(dev) - 1 = Cardinality(DescendantsOf(nodes, n))

\* A function node whose page was moved under an application created after
\* it has a context of two ancestors, and that application has the page and
\* the function as its content to develop.
C19_Witness ==
    \E n \in DOMAIN nodes :
        LET r == application_detail(nodes, content, n) IN
        /\ Len(r.context) = 2
        /\ r.context[1].node > r.context[2].node
        /\ Len(application_detail(nodes, content, r.context[1].node).content_to_develop) = 3

\* C20: in application_detail every entry whose node has a non-null
\* document_id carries that document's content as document and the
\* renderer's output (a string, possibly empty) as document_text, also when
\* the content is the freshly initialised {}; every entry whose node has no
\* document_id carries document = null and document_text = null.
C20_DocumentEnrichment ==
    \A n \in DOMAIN nodes :
        LET r == application_detail(nodes, content, n)
            entries == {r.context[k] : k \in 1..Len(r.context)}
                       \cup {r.content_to_develop[k] : k \in 1..Len(r.content_to_develop)}
        IN
        \A e \in entries :
            IF nodes[e.node].document_id # None
            THEN /\ e.document = Some(get_content(content, nodes[e.node].document_id))
                 /\ e.document_text
                        = Some(tiptap_json_to_readable_text(
                                   get_content(content, nodes[e.node].document_id)))
            ELSE e.document = Null /\ e.document_text = Null

---------------------------------------------------------------------------
(* Moving a node away and back *)

\* The sibling that stands directly before n among the children of n's
\* parent (None when n is the first child).
OriginalPredecessor(t, n) ==
    LET before == {i \in DOMAIN t \ {n} :
                      t[i].parent_id = t[n].parent_id /\ t[i].sort < t[n].sort}
    IN  IF before = {} THEN None
        ELSE CHOOSE i \in before : \A j \in before : t[j].sort <= t[i].sort

\* The table after move_node(n, q, pred) and then move_node(n, p, the
\* original predecessor), p being n's parent in t.
RoundTrip(t, n, q, pred) ==
    MoveResult(MoveResult(t, n, q, pred), n, t[n].parent_id, OriginalPredecessor(t, n))

\* Both moves of the round trip are accepted: n has a parent, q is another
\* parent the service permits.
RoundTripAccepted(t, n, q, pred) ==
    /\ n \in DOMAIN t
    /\ t[n].parent_id \in DOMAIN t
    /\ q # t[n].parent_id
    /\ MoveAccepted(t, n, q, pred)
    /\ MoveAccepted(MoveResult(t, n, q, pred), n, t[n].parent_id,
                    OriginalPredecessor(t, n))

\* C21 as stated: moving n under another permitted parent and back under p
\* at its original position restores n's original parent_id and sort and
\* the original path of n and of every descendant of n.
C21_MoveRoundTripRestoresSort ==
    \A n \in NodeIds : \A q \in NodeIds : \A pred \in PredecessorArgs :
        RoundTripAccepted(nodes, n, q, pred) =>
            LET t2 == RoundTrip(nodes, n, q, pred) IN
            /\ t2[n].parent_id = nodes[n].parent_id
            /\ t2[n].sort = nodes[n].sort
            /\ \A i \in {n} \cup DescendantsOf(nodes, n) : t2[i].path = nodes[i].path

\* C21 amended: the round trip restores n's original parent_id and the
\* original path of n and of every descendant of n; n's sort is 0 when n was
\* the first child and its original predecessor's sort + 1 otherwise.
C21_MoveRoundTrip ==
    \A n \in NodeIds : \A q \in NodeIds : \A pred \in PredecessorArgs :
        RoundTripAccepted(nodes, n, q, pred) =>
            LET t2 == RoundTrip(nodes, n, q, pred)
                pred0 == OriginalPredecessor(nodes, n)
            IN
            /\ t2[n].parent_id = nodes[n].parent_id
            /\ t2[n].sort = IF pred0 = None THEN 0 ELSE t2[pred0].sort + 1
            /\ \A i \in {n} \cup DescendantsOf(nodes, n) : t2[i].path = nodes[i].path

\* A page with a function child can be moved under the application of the
\* other project and back.
C21_Witness ==
    \E n \in DOMAIN nodes : \E q \in DOMAIN nodes :
        /\ RoundTripAccepted(nodes, n, q, None)
        /\ DescendantsOf(nodes, n) # {}
        /\ RoundTrip(nodes, n, q, None)[n].path = nodes[n].path
        /\ MoveResult(nodes, n, q, None)[n].path # nodes[n].path

---------------------------------------------------------------------------
(* A root stays a root *)

\* C30: a successful move_node of an application node with no new parent
\* (null or the empty string) stores parent_id = null and the path of a
\* root, so get_root_node still returns the node and a later
\* create_application_node for the project is still rejected.
C30_RootStaysRoot ==
    \A n \in NodeIds : \A q \in {None, EmptyStr} : \A pred \in PredecessorArgs :
        (MoveAccepted(nodes, n, q, pred) /\ nodes[n].node_type = "application") =>
            LET t1 == MoveResult(nodes, n, q, pred) IN
            /\ t1[n].parent_id = None
            /\ t1[n].path = <<n>>
            /\ get_root_node(nodes, nodes[n].project_id) # {}
                   => get_root_node(t1, nodes[n].project_id) # {}
            /\ ~ApplicationAllowed(t1, nodes[n].project_id)

---------------------------------------------------------------------------
(* A second application node *)

\* C22: a create_application_node on a project that already has an
\* application root fails with Conflict (HTTP 409) and creates no node.
C22_SecondApplicationConflict ==
    \A p \in Projects :
        get_root_node(nodes, p) # {} =>
            /\ create_application_response(nodes, projects, p) = "Conflict"
            /\ ~ApplicationAllowed(nodes, p)

---------------------------------------------------------------------------
(* Project names are unique *)

\* The name of the request held by a project other than exclude_id.
NameHeld(ps, name, exclude_id) ==
    \E i \in DOMAIN ps : i # exclude_id /\ ps[i].name = name

\* C23: no two projects have the same name; creating a project with an
\* existing name, or renaming a project to a name held by another project,
\* fails with Conflict (HTTP 409) and changes nothing, while an update that
\* keeps the project's own name succeeds.
C23_ProjectNamesUnique ==
    /\ \A i \in DOMAIN projects : \A j \in DOMAIN projects :
           i # j => projects[i].name # projects[j].name
    /\ (req.op = "create" /\ NameHeld(loc.before, req.name, None))
           => (resp = "Conflict" /\ projects = loc.before)
    /\ (req.op = "update" /\ req.project_id \in DOMAIN loc.before
            /\ NameHeld(loc.before, req.name, req.project_id))
           => (resp = "Conflict" /\ projects = loc.before)
    /\ (req.op = "update" /\ req.project_id \in DOMAIN loc.before
            /\ req.name = loc.before[req.project_id].name)
           => resp = "OK"

---------------------------------------------------------------------------
(* Tree assembly *)

ProjectNodes(t, p) == {i \in DOMAIN t : t[i].project_id = p}

Occurrences(s, x) == Cardinality({k \in 1..Len(s) : s[k] = x})

\* The tree returned for project p has the shape the claim describes.
TreeAssembled(t, p) ==
    LET tree == get_node_tree(t, p) IN
    /\ tree.root # None
    /\ get_root_node(t, p) = {tree.root}
    /\ LET walk == Walk(tree, tree.root, MaxDepth) IN
       \A i \in ProjectNodes(t, p) : Occurrences(walk, i) = 1
    /\ \A i \in DOMAIN tree.children :
           LET cs == tree.children[i] IN
           /\ \A k \in 1..Len(cs) : t[cs[k]].parent_id = i
           /\ \A k \in 1..(Len(cs) - 1) : t[cs[k]].sort <= t[cs[k + 1]].sort

\* C24: for a project whose nodes were built by the node operations,
\* get_tree returns the project's single root with every node of the project
\* appearing exactly once, nested under the node named by its parent_id, and
\* every children list in ascending sort order.
C24_TreeAssembly ==
    \A p \in Projects : ProjectNodes(nodes, p) # {} => TreeAssembled(nodes, p)

---------------------------------------------------------------------------
(* Append on create *)

\* C25: create_page_node and create_function_node give the new node
\* sort = (highest sort among the parent's existing children) + 1: its sort
\* is strictly greater than every existing sibling's, and it is the last of
\* the parent's children right after the creation.
C25_AppendOnCreate ==
    [][\A i \in DOMAIN nodes' \ DOMAIN nodes :
           nodes'[i].node_type \in {PAGE, FUNCTION} =>
               LET existing == {j \in DOMAIN nodes :
                                   nodes[j].parent_id = nodes'[i].parent_id}
               IN
               /\ existing # {} =>
                      nodes'[i].sort = SetMax({nodes[j].sort : j \in existing}) + 1
               /\ \A j \in existing : nodes[j].sort < nodes'[i].sort
               /\ \A j \in DOMAIN nodes' \ {i} :
                      nodes'[j].parent_id = nodes'[i].parent_id
                          => nodes'[j].sort < nodes'[i].sort]_vars

\* A page or function node created behind an existing sibling.
C25_Witness ==
    \E i \in DOMAIN nodes : \E j \in DOMAIN nodes :
        /\ i = nodeSeq /\ j < i
        /\ nodes[i].node_type \in {PAGE, FUNCTION}
        /\ nodes[j].parent_id = nodes[i].parent_id
        /\ nodes[i].sort = nodes[j].sort + 1
        /\ nodes[i].sort = SetMax({nodes[k].sort : k \in
               {m \in DOMAIN nodes : nodes[m].parent_id = nodes[i].parent_id}})

---------------------------------------------------------------------------
(* The frame of update_node *)

\* C26: update_node changes only the node's name (description, editor,
\* edited_at): the parent_id, path and sort stored for that node and all
\* fields of every other node are the same after the update's write as
\* immediately before it, also when a move of that node or of a sibling
\* completed between the update's load of the node and its write.
C26_UpdateFrame ==
    [][(pc = "write" /\ pc' = "done" /\ NodeExists(nodes, req.node_id)) =>
           /\ DOMAIN nodes' = DOMAIN nodes
           /\ \A i \in DOMAIN nodes :
                  IF i = req.node_id
                  THEN /\ nodes'[i].parent_id = nodes[i].parent_id
                       /\ nodes'[i].path = nodes[i].path
                       /\ nodes'[i].sort = nodes[i].sort
                  ELSE nodes'[i] = nodes[i]]_vars

---------------------------------------------------------------------------
(* Sibling order is total *)

\* Two rows are siblings when they have the same parent_id; rows without a
\* parent are siblings when they are roots of the same project.
SameParent(t, i, j) ==
    /\ i # j
    /\ t[i].parent_id = t[j].parent_id
    /\ t[i].parent_id = None => t[i].project_id = t[j].project_id

\* C27: when the node operations run one at a time, no two nodes with the
\* same parent ever have equal sort values.
C27_SiblingSortsDistinct ==
    \A i \in DOMAIN nodes : \A j \in DOMAIN nodes :
        SameParent(nodes, i, j) => nodes[i].sort # nodes[j].sort

\* Three children of one parent after a move among them.
C27_Witness ==
    \E i \in DOMAIN nodes : \E j \in DOMAIN nodes : \E k \in DOMAIN nodes :
        /\ SameParent(nodes, i, j) /\ SameParent(nodes, j, k) /\ SameParent(nodes, i, k)
        /\ i < j /\ j < k
        /\ nodes[k].sort < nodes[i].sort

---------------------------------------------------------------------------
(* Deletes beside other requests *)

AllDone == \A c \in DOMAIN pc : pc[c] = "done"

\* C28: for any interleaving of delete_node(p) with a create under p or a
\* move_node into p, once all requests have finished every node's non-null
\* parent_id refers to an existing node.
C28_NoOrphans ==
    AllDone =>
        \A i \in DOMAIN nodes :
            nodes[i].parent_id # None => nodes[i].parent_id \in DOMAIN nodes

\* C29: for any interleaving of patch_document_content(d) with the
\* delete_node that removes document d, once both have finished there is no
\* document content row for d.
C29_NoResurrectedContent ==
    (AllDone /\ ~DocumentExists(documents, 1)) => 1 \notin DOMAIN content

====
